---------------------------- MODULE Spec2Model ----------------------------
(***************************************************************************)
(* A model of the AI Chat Arena backend (src/backend): the four game-mode  *)
(* routers (gladiator, karaoke, tsunami, UFO conspiracy), the session      *)
(* stores they use and the text-generation adapter.                        *)
(*                                                                         *)
(* Conventions                                                             *)
(*  - Polish agent names are written in ASCII: "Watpiacy" is the agent the *)
(*    source spells with diacritics.                                       *)
(*  - Floats that the code steps by 0.2 (absurdity) are kept in tenths.    *)
(*  - random.choice / random.random are nondeterministic choices.          *)
(*  - A session identifier is the clock second it was derived from; the    *)
(*    mode prefix ("tsunami_", "gladiator_", ...) is the store it is in.   *)
(*  - The database session is taken with the meaning the handlers are     *)
(*    written for: execute(SELECT) returns the row of the session_id,      *)
(*    assigning to a column of that row and committing writes the column,  *)
(*    and a commit never fails.                                            *)
(*  - Http status 200 stands for a normal return of the handler.           *)
(***************************************************************************)
EXTENDS Integers, Sequences, FiniteSets, TLC

VARIABLES
    now,                      \* wall clock, in whole seconds
    tsunami_sessions,         \* tsunami_router.tsunami_sessions (module dict)
    ufo_conspiracy_sessions,  \* ufo_conspiracy_router.ufo_conspiracy_sessions
    dialog_sessions,          \* table dialog_sessions, keyed by session_id
    inflight,                 \* requests suspended at an await, with their locals
    gen,                      \* one call of a content generator: input and result
    resp,                     \* the response to the last completed request
    manager,                  \* websocket.ConnectionManager: its two dicts
    tts                       \* services.tts_service.TTSService: engine and cache

vars == <<now, tsunami_sessions, ufo_conspiracy_sessions, dialog_sessions,
          inflight, gen, resp, manager, tts>>

(***************************************************************************)
(* Bounds of the model                                                     *)
(***************************************************************************)
MaxClock == 2        \* the clock runs from second 1 to this second
MaxAdvances == 10    \* advances summed over the sessions of one in-memory store
TopicPool == 2       \* entries of a topic pool that random.choice may draw
EvidencePool == 2    \* entries of an evidence pool that random.choice may draw
ModifierPool == 1    \* entries of absurd_modifiers that random.choice may draw
UfoPool == 1         \* entries of a UFO pool that random.choice may draw

Clock == 1..MaxClock

NoResp == [op |-> "none"]

\* ConnectionManager.__init__: no connection, no dialog session.  A dict
\* keeps its keys in insertion order: dialog_sessions is the list of its
\* items, active_connections the set of its keys.
ConnectionManager == [active_connections |-> {}, dialog_sessions |-> <<>>]

\* TTSService.__init__: no engine yet, an empty audio_cache.
TTSService == [pyttsx3_engine |-> "None", audio_cache |-> <<>>]

(***************************************************************************)
(* Python helpers                                                          *)
(***************************************************************************)
\* A variant of Min that lets its second argument through.
Min_SecondArgument(a, b) == b

Min(a, b) == IF a < b THEN a ELSE b

\* A dict display {k1: v1, k2: v2, ...}: later pairs replace earlier ones
\* with the same key.
RECURSIVE DictOf(_)
DictOf(pairs) ==
    IF pairs = <<>> THEN <<>>
    ELSE LET n == Len(pairs)
             d == DictOf(SubSeq(pairs, 1, n - 1))
             k == pairs[n][1]
             v == pairs[n][2]
         IN  [x \in (DOMAIN d) \cup {k} |-> IF x = k THEN v ELSE d[x]]

(***************************************************************************)
(* Tsunami mode (tsunami_router.py)                                        *)
(***************************************************************************)
TsunamiAgents == <<"Adam", "Beata", "Watpiacy">>

\* The pools random.choice draws from. The model draws from the first
\* TopicPool / EvidencePool entries; the length the code compares with is
\* the pool's own.
CHAOS_TOPICS == 1..TopicPool
CONSPIRACY_EVIDENCE == 1..EvidencePool
CONSPIRACY_EVIDENCE_LEN == 10

\* The agent_beliefs display of start_tsunami.
TsunamiBeliefs(confused_agent) ==
    DictOf(<<
        <<confused_agent, "real_person">>,
        <<IF confused_agent # "Adam" THEN "Adam" ELSE "Beata", "gone_mad">>,
        <<IF confused_agent # "Beata" THEN "Beata" ELSE "Watpiacy", "must_wake_up">>,
        <<IF confused_agent # "Watpiacy" THEN "Watpiacy" ELSE "Adam", "smells_fishy">>
    >>)

TsunamiState(confused_agent, topic) ==
    [ phase               |-> "forgetting",
      confused_agent      |-> confused_agent,
      round_number        |-> 1,
      chaos_level         |-> 1,
      current_topic       |-> topic,
      agent_beliefs       |-> TsunamiBeliefs(confused_agent),
      conspiracy_evidence |-> <<>> ]

TsunamiSessionId(t) == t

TsunamiResponse(op, session_id, state, effects) ==
    [ op |-> op, session_id |-> session_id, status |-> 200,
      phase |-> state.phase, round_number |-> state.round_number,
      chaos_level |-> state.chaos_level, special_effects |-> effects ]

NotFound(op, session_id) ==
    [ op |-> op, session_id |-> session_id, status |-> 404 ]

\* tsunami_sessions[session_id] = tsunami_state: an existing entry under the
\* same key is replaced.
StoreTsunami(session_id, state) ==
    [ s \in (DOMAIN tsunami_sessions) \cup {session_id} |->
        IF s = session_id THEN state ELSE tsunami_sessions[s] ]

start_tsunami ==
    \E confused_agent \in {TsunamiAgents[i] : i \in DOMAIN TsunamiAgents},
       topic \in CHAOS_TOPICS :
        LET session_id == TsunamiSessionId(now)
            state == TsunamiState(confused_agent, topic)
        IN  /\ tsunami_sessions' = StoreTsunami(session_id, state)
            /\ resp' = TsunamiResponse("tsunami/start-tsunami", session_id, state,
                                       <<"screen_shake", "glitch_effect">>)
            /\ UNCHANGED <<now, ufo_conspiracy_sessions, dialog_sessions,
                           inflight, gen, manager, tts>>

\* A variant of TsunamiPhase whose first threshold is one round late.
TsunamiPhase_LateIntrigue(round_number) ==
    IF round_number <= 4 THEN "forgetting"
    ELSE IF round_number <= 6 THEN "intrigue"
    ELSE IF round_number <= 9 THEN "tsunami"
    ELSE "chaos"

TsunamiPhase(round_number) ==
    IF round_number <= 3 THEN "forgetting"
    ELSE IF round_number <= 6 THEN "intrigue"
    ELSE IF round_number <= 9 THEN "tsunami"
    ELSE "chaos"

\* A variant of TsunamiEffects whose second threshold is strict.
TsunamiEffects_StrictThreshold(chaos_level) ==
    (IF chaos_level >= 5 THEN <<"screen_shake">> ELSE <<>>)
    \o (IF chaos_level > 7 THEN <<"glitch_effect">> ELSE <<>>)
    \o (IF chaos_level >= 9 THEN <<"color_inversion">> ELSE <<>>)

TsunamiEffects(chaos_level) ==
    (IF chaos_level >= 5 THEN <<"screen_shake">> ELSE <<>>)
    \o (IF chaos_level >= 7 THEN <<"glitch_effect">> ELSE <<>>)
    \o (IF chaos_level >= 9 THEN <<"color_inversion">> ELSE <<>>)

\* A variant of Collected that overwrites the last entry.
Collected_Overwriting(list, entry, pool_len) ==
    IF list = <<>> THEN <<entry>> ELSE [list EXCEPT ![Len(list)] = entry]

\* if len(list) < len(POOL): list.append(entry)
Collected(list, entry, pool_len) ==
    IF Len(list) < pool_len THEN Append(list, entry) ELSE list

\* A variant of NextTopic that goes back to the first topic of the pool on
\* the other rounds.
NextTopic_ResetsBetween(current_topic, round_number, topic) ==
    IF round_number % 3 = 0 THEN topic ELSE 1

\* if state.round_number % 3 == 0: state.current_topic = random.choice(...)
NextTopic(current_topic, round_number, topic) ==
    IF round_number % 3 = 0 THEN topic ELSE current_topic

\* The body of next_round on an existing session. evidence and topic are
\* the random.choice draws, doubters the agents whose random.random() > 0.5.
TsunamiAdvance(state, evidence, topic, doubters) ==
    LET round_number == state.round_number + 1
        chaos_level == Min(10, state.chaos_level + 1)
        phase == TsunamiPhase(round_number)
        conspiracy_evidence ==
            IF phase = "intrigue"
            THEN Collected(state.conspiracy_evidence, evidence,
                           CONSPIRACY_EVIDENCE_LEN)
            ELSE state.conspiracy_evidence
        agent_beliefs ==
            IF phase = "tsunami"
            THEN [a \in DOMAIN state.agent_beliefs |->
                    IF a = state.confused_agent THEN "am_i_not_real"
                    ELSE state.agent_beliefs[a]]
            ELSE IF phase = "chaos"
            THEN [a \in DOMAIN state.agent_beliefs |->
                    IF a \in doubters THEN "maybe_i_am_ai"
                    ELSE state.agent_beliefs[a]]
            ELSE state.agent_beliefs
        current_topic == NextTopic(state.current_topic, round_number, topic)
    IN  [ state EXCEPT !.round_number = round_number,
                       !.chaos_level = chaos_level,
                       !.phase = phase,
                       !.conspiracy_evidence = conspiracy_evidence,
                       !.agent_beliefs = agent_beliefs,
                       !.current_topic = current_topic ]

RECURSIVE SumRounds(_, _)
SumRounds(sessions, ids) ==
    IF ids = {} THEN 0
    ELSE LET s == CHOOSE x \in ids : TRUE
         IN  (sessions[s].round_number - 1) + SumRounds(sessions, ids \ {s})

\* The advances made so far, over the sessions of both in-memory stores.
AdvancesMade ==
    SumRounds(tsunami_sessions, DOMAIN tsunami_sessions)
    + SumRounds(ufo_conspiracy_sessions, DOMAIN ufo_conspiracy_sessions)

TsunamiAdvancesLeft == AdvancesMade < MaxAdvances

\* The draws next_round makes for a session in this state: random.choice is
\* called only on the branch that uses it.
TsunamiEvidenceDraws(state) ==
    IF TsunamiPhase(state.round_number + 1) = "intrigue"
       /\ Len(state.conspiracy_evidence) < CONSPIRACY_EVIDENCE_LEN
    THEN CONSPIRACY_EVIDENCE ELSE {1}

TsunamiTopicDraws(state) ==
    IF (state.round_number + 1) % 3 = 0 THEN CHAOS_TOPICS ELSE {1}

TsunamiDoubterDraws(state) ==
    IF TsunamiPhase(state.round_number + 1) = "chaos"
    THEN SUBSET DOMAIN state.agent_beliefs ELSE {{}}

tsunami_next_round ==
    \E session_id \in Clock :
        /\ IF session_id \notin DOMAIN tsunami_sessions
           THEN /\ resp' = NotFound("tsunami/next-round", session_id)
                /\ UNCHANGED tsunami_sessions
           ELSE /\ TsunamiAdvancesLeft
                /\ \E evidence \in TsunamiEvidenceDraws(tsunami_sessions[session_id]),
                      topic \in TsunamiTopicDraws(tsunami_sessions[session_id]),
                      doubters \in TsunamiDoubterDraws(tsunami_sessions[session_id]) :
                    LET state == TsunamiAdvance(tsunami_sessions[session_id],
                                                evidence, topic, doubters)
                    IN  /\ tsunami_sessions' =
                              [tsunami_sessions EXCEPT ![session_id] = state]
                        /\ resp' = TsunamiResponse("tsunami/next-round", session_id, state,
                                                   TsunamiEffects(state.chaos_level))
        /\ UNCHANGED <<now, ufo_conspiracy_sessions, dialog_sessions, inflight, gen, manager, tts>>

tsunami_status ==
    \E session_id \in Clock :
        /\ resp' = IF session_id \notin DOMAIN tsunami_sessions
                   THEN NotFound("tsunami/tsunami-status", session_id)
                   ELSE TsunamiResponse("tsunami/tsunami-status", session_id,
                                        tsunami_sessions[session_id], <<>>)
        /\ UNCHANGED <<now, tsunami_sessions, ufo_conspiracy_sessions,
                       dialog_sessions, inflight, gen, manager, tts>>

vote_best_deception ==
    \E session_id \in Clock :
        /\ resp' = IF session_id \notin DOMAIN tsunami_sessions
                   THEN NotFound("tsunami/vote-best-deception", session_id)
                   ELSE TsunamiResponse("tsunami/vote-best-deception", session_id,
                                        tsunami_sessions[session_id],
                                        <<"victory_animation", "confetti">>)
        /\ UNCHANGED <<now, tsunami_sessions, ufo_conspiracy_sessions,
                       dialog_sessions, inflight, gen, manager, tts>>

(***************************************************************************)
(* UFO conspiracy mode (ufo_conspiracy_router.py)                          *)
(***************************************************************************)
UfoAgents == <<"Adam", "Beata", "Watpiacy", "Daria">>

\* The pools, as for tsunami: draws come from the first UfoPool entries, the
\* lengths are the pools' own.
UFO_SIGHTINGS == {<<"sighting", k>> : k \in 1..UfoPool}
CONSPIRACY_THEORIES == {<<"theory", k>> : k \in 1..UfoPool}
ANUNAKI_REVELATIONS == {<<"revelation", k>> : k \in 1..UfoPool}
FLAT_EARTH_AI_CLAIMS == {<<"flat_earth", k>> : k \in 1..UfoPool}
UFO_SIGHTINGS_LEN == 7
CONSPIRACY_THEORIES_LEN == 8
FLAT_EARTH_AI_CLAIMS_LEN == 7

\* The agent_beliefs display of start_ufo_conspiracy.
UfoBeliefs(primary_agent) ==
    DictOf(<<
        <<primary_agent, "saw_ufo">>,
        <<IF primary_agent # "Adam" THEN "Adam" ELSE "Beata", "gone_mad">>,
        <<IF primary_agent # "Beata" THEN "Beata" ELSE "Watpiacy", "needs_treatment">>,
        <<IF primary_agent # "Watpiacy" THEN "Watpiacy" ELSE "Daria", "doubts">>,
        <<IF primary_agent # "Daria" THEN "Daria" ELSE "Adam", "loves_visions">>
    >>)

UFOConspiracyState(primary_agent, conspiracy, sighting) ==
    [ phase               |-> "ufo_sighting",
      primary_agent       |-> primary_agent,
      round_number        |-> 1,
      chaos_level         |-> 5,
      current_conspiracy  |-> conspiracy,
      agent_beliefs       |-> UfoBeliefs(primary_agent),
      conspiracy_evidence |-> <<>>,
      ufo_sightings       |-> <<sighting>>,
      flat_earth_claims   |-> <<>> ]

UfoSessionId(t) == t

UFOConspiracyResponse(op, session_id, state, effects, conspiracy_level) ==
    [ op |-> op, session_id |-> session_id, status |-> 200,
      phase |-> state.phase, round_number |-> state.round_number,
      chaos_level |-> state.chaos_level, special_effects |-> effects,
      conspiracy_level |-> conspiracy_level ]

\* ufo_conspiracy_sessions[session_id] = conspiracy_state
StoreUfo(session_id, state) ==
    [ s \in (DOMAIN ufo_conspiracy_sessions) \cup {session_id} |->
        IF s = session_id THEN state ELSE ufo_conspiracy_sessions[s] ]

start_ufo_conspiracy ==
    \E primary_agent \in {UfoAgents[i] : i \in DOMAIN UfoAgents},
       conspiracy \in UFO_SIGHTINGS, sighting \in UFO_SIGHTINGS :
        LET session_id == UfoSessionId(now)
            state == UFOConspiracyState(primary_agent, conspiracy, sighting)
        IN  /\ ufo_conspiracy_sessions' = StoreUfo(session_id, state)
            /\ resp' = UFOConspiracyResponse("ufo/start-ufo-conspiracy", session_id,
                                             state, <<"ufo_flyby", "cosmic_glow">>, 15)
            /\ UNCHANGED <<now, tsunami_sessions, dialog_sessions, inflight, gen, manager, tts>>

\* A variant of UfoPhase that starts over after the third phase.
UfoPhase_Wraps(round_number) ==
    IF round_number <= 3 THEN "ufo_sighting"
    ELSE IF round_number <= 6 THEN "conspiracy_theory"
    ELSE IF round_number <= 9 THEN "anunaki_revelation"
    ELSE "ufo_sighting"

UfoPhase(round_number) ==
    IF round_number <= 3 THEN "ufo_sighting"
    ELSE IF round_number <= 6 THEN "conspiracy_theory"
    ELSE IF round_number <= 9 THEN "anunaki_revelation"
    ELSE "flat_earth_ai"

UfoEffects(chaos_level) ==
    (IF chaos_level >= 8 THEN <<"ufo_flyby", "alien_glow">> ELSE <<>>)
    \o (IF chaos_level >= 11 THEN <<"cosmic_storm", "flat_earth_spin">> ELSE <<>>)
    \o (IF chaos_level >= 14 THEN <<"anunaki_power", "chaos_inversion">> ELSE <<>>)

\* min(100, state.chaos_level * 7)
ConspiracyLevel(chaos_level) == Min(100, chaos_level * 7)

\* The pool the phase of a round draws from.
UfoPhasePool(phase) ==
    IF phase = "ufo_sighting" THEN UFO_SIGHTINGS
    ELSE IF phase = "conspiracy_theory" THEN CONSPIRACY_THEORIES
    ELSE IF phase = "anunaki_revelation" THEN ANUNAKI_REVELATIONS
    ELSE FLAT_EARTH_AI_CLAIMS

\* The body of next_ufo_round on an existing session. conspiracy and
\* appended are the random.choice draws, believers the agents whose
\* random.random() > 0.3.
UfoAdvance(state, conspiracy, appended, believers) ==
    LET round_number == state.round_number + 1
        chaos_level == Min(15, state.chaos_level + 2)
        phase == UfoPhase(round_number)
        ufo_sightings ==
            IF phase = "ufo_sighting"
            THEN Collected(state.ufo_sightings, appended, UFO_SIGHTINGS_LEN)
            ELSE state.ufo_sightings
        conspiracy_evidence ==
            IF phase = "conspiracy_theory"
            THEN Collected(state.conspiracy_evidence, appended,
                           CONSPIRACY_THEORIES_LEN)
            ELSE state.conspiracy_evidence
        flat_earth_claims ==
            IF phase = "flat_earth_ai"
            THEN Collected(state.flat_earth_claims, appended,
                           FLAT_EARTH_AI_CLAIMS_LEN)
            ELSE state.flat_earth_claims
        agent_beliefs ==
            IF phase = "anunaki_revelation"
            THEN [a \in DOMAIN state.agent_beliefs |->
                    IF a = "Watpiacy" THEN "anunaki_are_real"
                    ELSE state.agent_beliefs[a]]
            ELSE IF phase = "flat_earth_ai"
            THEN [a \in DOMAIN state.agent_beliefs |->
                    IF a \in believers THEN "ai_is_flat"
                    ELSE state.agent_beliefs[a]]
            ELSE state.agent_beliefs
    IN  [ state EXCEPT !.round_number = round_number,
                       !.chaos_level = chaos_level,
                       !.phase = phase,
                       !.current_conspiracy = conspiracy,
                       !.ufo_sightings = ufo_sightings,
                       !.conspiracy_evidence = conspiracy_evidence,
                       !.flat_earth_claims = flat_earth_claims,
                       !.agent_beliefs = agent_beliefs ]

UfoAdvancesLeft == AdvancesMade < MaxAdvances

\* random.choice for the list is called only where the list is appended to.
UfoAppendDraws(state) ==
    LET phase == UfoPhase(state.round_number + 1)
    IN  IF phase = "anunaki_revelation"
        THEN {CHOOSE x \in UfoPhasePool(phase) : TRUE}
        ELSE UfoPhasePool(phase)

UfoBelieverDraws(state) ==
    IF UfoPhase(state.round_number + 1) = "flat_earth_ai"
    THEN SUBSET DOMAIN state.agent_beliefs ELSE {{}}

next_ufo_round ==
    \E session_id \in Clock :
        /\ IF session_id \notin DOMAIN ufo_conspiracy_sessions
           THEN /\ resp' = NotFound("ufo/next-ufo-round", session_id)
                /\ UNCHANGED ufo_conspiracy_sessions
           ELSE /\ UfoAdvancesLeft
                /\ LET before == ufo_conspiracy_sessions[session_id]
                   IN  \E conspiracy \in UfoPhasePool(UfoPhase(before.round_number + 1)),
                          appended \in UfoAppendDraws(before),
                          believers \in UfoBelieverDraws(before) :
                        LET state == UfoAdvance(before, conspiracy, appended, believers)
                        IN  /\ ufo_conspiracy_sessions' =
                                  [ufo_conspiracy_sessions EXCEPT ![session_id] = state]
                            /\ resp' = UFOConspiracyResponse(
                                          "ufo/next-ufo-round", session_id, state,
                                          UfoEffects(state.chaos_level),
                                          ConspiracyLevel(state.chaos_level))
        /\ UNCHANGED <<now, tsunami_sessions, dialog_sessions, inflight, gen, manager, tts>>

ufo_conspiracy_status ==
    \E session_id \in Clock :
        /\ resp' = IF session_id \notin DOMAIN ufo_conspiracy_sessions
                   THEN NotFound("ufo/ufo-conspiracy-status", session_id)
                   ELSE LET state == ufo_conspiracy_sessions[session_id]
                        IN  UFOConspiracyResponse("ufo/ufo-conspiracy-status",
                                                  session_id, state, <<>>,
                                                  ConspiracyLevel(state.chaos_level))
        /\ UNCHANGED <<now, tsunami_sessions, ufo_conspiracy_sessions,
                       dialog_sessions, inflight, gen, manager, tts>>

vote_conspiracy_master ==
    \E session_id \in Clock :
        /\ resp' = IF session_id \notin DOMAIN ufo_conspiracy_sessions
                   THEN NotFound("ufo/vote-conspiracy-master", session_id)
                   ELSE LET state == ufo_conspiracy_sessions[session_id]
                        IN  UFOConspiracyResponse(
                                "ufo/vote-conspiracy-master", session_id, state,
                                <<"cosmic_victory", "anunaki_blessing",
                                  "flat_earth_celebration">>,
                                ConspiracyLevel(state.chaos_level))
        /\ UNCHANGED <<now, tsunami_sessions, ufo_conspiracy_sessions,
                       dialog_sessions, inflight, gen, manager, tts>>

(***************************************************************************)
(* Content generation (services/ollama_service.py)                         *)
(*                                                                         *)
(* A text is "" (empty), "blank" (whitespace only) or a tag naming a       *)
(* non-empty text. A call that raises returns Raised(what).                *)
(***************************************************************************)
\* Python's None, where the other values are texts.
None == "None"

Raised(what) == [raised |-> what]
IsRaised(v) == "raised" \in DOMAIN v
Returned(v) == [value |-> v]

\* OllamaService(): the routers construct the service and never enter it,
\* so no model list is fetched and no HTTP session is opened.
OllamaService == [available_models |-> <<>>, session |-> None]

\* The same service after __aenter__ found the given models.
EnteredService(models) == [available_models |-> models, session |-> "open"]

PreferredModels == <<"llama3.2:3b", "phi3:mini", "llama3.1", "mistral">>

\* What the generation backend does with one POST /api/generate.
BackendOutcomes == {"text", "blank", "empty", "status_500", "timeout"}

SelectModel(service) ==
    LET avail == {service.available_models[i] : i \in DOMAIN service.available_models}
        hits == {i \in DOMAIN PreferredModels : PreferredModels[i] \in avail}
    IN  IF hits # {}
        THEN Returned(PreferredModels[CHOOSE i \in hits : \A j \in hits : i <= j])
        ELSE IF service.available_models # <<>>
        THEN Returned(service.available_models[1])
        ELSE Raised("No Ollama models available")

Apology == "apology"

\* A variant of generate_creative_content that posts again after a failure.
GenerateCreativeContent_Retry(service, backend) ==
    IF service.available_models = <<>> \/ service.session = None
    THEN [text |-> Apology, posts |-> 0]
    ELSE IF backend = "text" THEN [text |-> "generated", posts |-> 1]
    ELSE IF backend = "blank" THEN [text |-> "blank", posts |-> 1]
    ELSE IF backend = "empty" THEN [text |-> "", posts |-> 1]
    ELSE [text |-> Apology, posts |-> 2]

\* OllamaService.generate_creative_content; posts counts the requests sent.
GenerateCreativeContent(service, backend) ==
    IF IsRaised(SelectModel(service))
    THEN [text |-> Apology, posts |-> 0]
    ELSE IF service.session = None
    THEN [text |-> Apology, posts |-> 0]
    ELSE IF backend = "text" THEN [text |-> "generated", posts |-> 1]
    ELSE IF backend = "blank" THEN [text |-> "blank", posts |-> 1]
    ELSE IF backend = "empty" THEN [text |-> "", posts |-> 1]
    ELSE [text |-> Apology, posts |-> 1]

AgentTypes == {"adam", "beata", "wapiacy", "normal"}

\* OllamaService._post_process_response on the text of a 200 answer; the
\* result is "" or the tag "generated". For wapiacy response[0] of an empty
\* text raises IndexError.
PostProcessResponse(text, agent_type) ==
    IF agent_type = "adam" THEN Returned("generated")
    ELSE IF agent_type = "wapiacy"
    THEN IF text = "" THEN Raised("IndexError") ELSE Returned("generated")
    ELSE Returned(IF text \in {"", "blank"} THEN "" ELSE "generated")

\* OllamaService._fallback_response: one fixed sentence per agent type.
FallbackResponse(agent_type) ==
    IF agent_type = "adam" THEN "fallback adam"
    ELSE IF agent_type = "beata" THEN "fallback beata"
    ELSE IF agent_type = "wapiacy" THEN "fallback wapiacy"
    ELSE "fallback normal"

\* OllamaService.chat; posts counts the requests sent.
Chat(service, agent_type, backend) ==
    IF IsRaised(SelectModel(service)) \/ service.session = None
    THEN [text |-> FallbackResponse(agent_type), posts |-> 0]
    ELSE IF backend \in {"status_500", "timeout"}
    THEN [text |-> FallbackResponse(agent_type), posts |-> 1]
    ELSE LET processed ==
                PostProcessResponse(IF backend = "text" THEN "generated"
                                    ELSE IF backend = "blank" THEN "blank"
                                    ELSE "", agent_type)
         IN  IF IsRaised(processed)
             THEN [text |-> FallbackResponse(agent_type), posts |-> 1]
             ELSE [text |-> processed.value, posts |-> 1]

\* The services a call is made on: as constructed, or entered with the
\* model list the backend reported.
ModelLists == {<<>>, <<"mistral">>, <<"gemma">>, <<"gemma", "phi3:mini">>}
Services == {OllamaService} \cup {EnteredService(models) : models \in ModelLists}

\* One call of a generate method; gen records the call and what it gave.
chat ==
    \E service \in Services, agent_type \in AgentTypes, backend \in BackendOutcomes :
        LET made == Chat(service, agent_type, backend)
        IN  /\ gen' = [op |-> "chat", service |-> service, agent_type |-> agent_type,
                       backend |-> backend, text |-> made.text, posts |-> made.posts]
            /\ UNCHANGED <<now, tsunami_sessions, ufo_conspiracy_sessions,
                           dialog_sessions, inflight, resp, manager, tts>>

generate_creative_content ==
    \E service \in Services, backend \in BackendOutcomes :
        LET made == GenerateCreativeContent(service, backend)
        IN  /\ gen' = [op |-> "generate_creative_content", service |-> service,
                       agent_type |-> None, backend |-> backend,
                       text |-> made.text, posts |-> made.posts]
            /\ UNCHANGED <<now, tsunami_sessions, ufo_conspiracy_sessions,
                           dialog_sessions, inflight, resp, manager, tts>>

\* str.strip()
Strip(text) == IF text = "blank" THEN "" ELSE text

(***************************************************************************)
(* The dialog_sessions table (app/database.py) and the text column         *)
(* messages. The routers write str(dict) and read with json.loads.         *)
(***************************************************************************)
\* str(data) of a dict: Python's repr, with single-quoted keys and strings.
Str(data) == [fmt |-> "python_repr", data |-> data]

\* json.loads(text): JSON wants double-quoted strings, so the repr of a
\* non-empty dict is rejected with JSONDecodeError.
Loads(blob) ==
    IF blob.fmt = "json" THEN Returned(blob.data)
    ELSE Raised("JSONDecodeError")

\* A text json.loads accepts: the JSON document of data.
JsonText(data) == [fmt |-> "json", data |-> data]

GladiatorKey(battle_id) == <<"gladiator", battle_id>>
KaraokeKey(night_id) == <<"karaoke", night_id>>

\* SELECT * FROM dialog_sessions WHERE session_id = ...; fetchone():
\* <<row>>, or <<>> for Python's None.
FetchOne(db, key) == IF key \in DOMAIN db THEN <<db[key]>> ELSE <<>>

\* db.add(row); commit: session_id is UNIQUE.
Insert(db, key, row) ==
    IF key \in DOMAIN db THEN Raised("IntegrityError")
    ELSE Returned([k \in (DOMAIN db) \cup {key} |-> IF k = key THEN row ELSE db[k]])

\* except Exception as e: raise HTTPException(status_code=500, detail=str(e))
\* An HTTPException raised inside the try block is caught here as well.
Http500(op, session_id, detail) ==
    [op |-> op, session_id |-> session_id, status |-> 500, detail |-> detail]

(***************************************************************************)
(* Gladiator mode (gladiator_router.py)                                    *)
(***************************************************************************)
MaxRoundsHardCoded == 5
VoteThreshold == 3

\* The start requests the model sends: two known personas, or an agent the
\* router has no persona for; absurdity_start_level in tenths.
AgentPairs == {<<"Adam", "Beata">>, <<"Zenon", "Adam">>}
AbsurdityStartLevels == {1, 5, 15}
MaxRoundsRequested == {1, 5}

GladiatorBattleRequests ==
    { [ agent1 |-> p[1], agent2 |-> p[2], max_rounds |-> m,
        absurdity_start_level |-> a ] :
      p \in AgentPairs, m \in MaxRoundsRequested, a \in AbsurdityStartLevels }

\* battle_data of start_gladiator_battle
BattleData(battle_id, request, start_time) ==
    [ battle_id       |-> battle_id,
      topic           |-> "topic",
      agent1          |-> request.agent1,
      agent2          |-> request.agent2,
      rounds          |-> <<>>,
      current_round   |-> 0,
      absurdity_level |-> request.absurdity_start_level,
      votes           |-> <<>>,
      start_time      |-> start_time ]

BattleRow(battle_id, request, battle_data) ==
    [ session_id  |-> battle_id,
      agent1_name |-> request.agent1,
      agent2_name |-> request.agent2,
      topic       |-> "GLADIATOR BATTLE",
      messages    |-> Str(battle_data),
      is_active   |-> TRUE,
      drama_level |-> request.absurdity_start_level ]

StartBattle(db, battle_id, request, start_time) ==
    LET battle_data == BattleData(battle_id, request, start_time)
        added == Insert(db, GladiatorKey(battle_id),
                        BattleRow(battle_id, request, battle_data))
    IN  IF IsRaised(added)
        THEN [db |-> db, resp |-> Http500("gladiator/start-battle", battle_id, added.raised)]
        ELSE [db |-> added.value,
              resp |-> [op |-> "gladiator/start-battle", session_id |-> battle_id,
                        status |-> 200, max_rounds |-> request.max_rounds,
                        arena_ready |-> TRUE]]

\* generate_absurd_topic: the topics it may return, as <<base, modifiers...>>
AbsurdTopics(base_topic, absurdity_level) ==
    IF absurdity_level < 3 THEN {<<base_topic>>}
    ELSE IF absurdity_level < 6
    THEN {<<base_topic, m>> : m \in 1..Min(3, ModifierPool)}
    ELSE {<<base_topic, m1, m2>> : m1 \in 1..ModifierPool,
                                   m2 \in 1..Min(3, ModifierPool)}

FallbackAttackers == {"Adam", "Beata", "Watpiacy"}

\* The except branch of generate_gladiator_attack.
FallbackAttacks(attacker) ==
    IF attacker \notin FallbackAttackers THEN {"Atak!"}
    ELSE IF attacker = "Adam"
    THEN {"Adam fallback 1", "Adam fallback 2", "Adam fallback 3"}
    ELSE IF attacker = "Beata"
    THEN {"Beata fallback 1", "Beata fallback 2", "Beata fallback 3"}
    ELSE {"Watpiacy fallback 1", "Watpiacy fallback 2", "Watpiacy fallback 3"}

\* generate_gladiator_attack: the attacks it may return. The service is
\* constructed here, on every call.
GladiatorAttacks(backend, attacker) ==
    LET made == GenerateCreativeContent(OllamaService, backend)
    IN  IF IsRaised(made) THEN FallbackAttacks(attacker)
        ELSE {Strip(made.text)}

RoundData(round_number, a1, a2, absurdity_level, round_topic) ==
    [ round_number    |-> round_number,
      agent1_attack   |-> a1,
      agent2_attack   |-> a2,
      absurdity_level |-> absurdity_level,
      round_topic     |-> round_topic,
      votes           |-> [agent1 |-> 0, agent2 |-> 0],
      winner          |-> None ]

\* A variant of AppendRound that appends the round without advancing
\* current_round.
AppendRound_StaleCounter(battle_data, round_topic, a1, a2) ==
    LET round_number == battle_data.current_round + 1
        absurdity_level == battle_data.absurdity_level
    IN  [ battle_data EXCEPT
            !.rounds = Append(@, RoundData(round_number, a1, a2,
                                           absurdity_level, round_topic)),
            !.absurdity_level = Min(absurdity_level + 2, 10) ]

\* Lines 119-154 of next_gladiator_round: the battle_data after one round.
AppendRound(battle_data, round_topic, a1, a2) ==
    LET round_number == battle_data.current_round + 1
        absurdity_level == battle_data.absurdity_level
    IN  [ battle_data EXCEPT
            !.rounds = Append(@, RoundData(round_number, a1, a2,
                                           absurdity_level, round_topic)),
            !.current_round = round_number,
            !.absurdity_level = Min(absurdity_level + 2, 10) ]

Wins(rounds, who) == Cardinality({i \in DOMAIN rounds : rounds[i].winner = who})

\* FinalWinner with the first comparison weakened: equal counts go to agent1.
FinalWinner_TieToAgent1(battle_data) ==
    LET agent1_wins == Wins(battle_data.rounds, "agent1")
        agent2_wins == Wins(battle_data.rounds, "agent2")
    IN  IF agent1_wins >= agent2_wins THEN battle_data.agent1
        ELSE IF agent2_wins > agent1_wins THEN battle_data.agent2
        ELSE "tie"

\* Lines 252-262 of finish_gladiator_battle
FinalWinner(battle_data) ==
    LET agent1_wins == Wins(battle_data.rounds, "agent1")
        agent2_wins == Wins(battle_data.rounds, "agent2")
    IN  IF agent1_wins > agent2_wins THEN battle_data.agent1
        ELSE IF agent2_wins > agent1_wins THEN battle_data.agent2
        ELSE "tie"

\* finish_gladiator_battle, called from next_gladiator_round (op) with the
\* same db session: it selects and parses the row again.
FinishBattle(db, op, battle_id, clock) ==
    LET battle_session == FetchOne(db, GladiatorKey(battle_id))
    IN  IF battle_session = <<>>
        THEN [db |-> db, resp |-> Http500(op, battle_id, "AttributeError")]
        ELSE
        LET parsed == Loads(battle_session[1].messages)
        IN  IF IsRaised(parsed)
            THEN [db |-> db, resp |-> Http500(op, battle_id, parsed.raised)]
            ELSE
            LET battle_data == parsed.value
            IN  [db |-> [db EXCEPT ![GladiatorKey(battle_id)] =
                            [@ EXCEPT !.is_active = FALSE,
                                      !.messages = Str(battle_data)]],
                 resp |-> [op |-> op, session_id |-> battle_id, status |-> 200,
                           battle_finished |-> TRUE,
                           final_winner |-> FinalWinner(battle_data),
                           agent1_wins |-> Wins(battle_data.rounds, "agent1"),
                           agent2_wins |-> Wins(battle_data.rounds, "agent2"),
                           total_absurdity |-> battle_data.absurdity_level,
                           battle_duration |-> clock - battle_data.start_time]]

\* Lines 104-113 of next_gladiator_round: the select and json.loads.
LoadBattle(db, battle_id) ==
    LET battle_session == FetchOne(db, GladiatorKey(battle_id))
    IN  IF battle_session = <<>> THEN Raised("404: Battle not found")
        ELSE Loads(battle_session[1].messages)

\* Lines 115-169 of next_gladiator_round, on the battle_data it has loaded:
\* the outcomes it may have, one per random draw.  db is the table at the
\* time of the commit; the row is written from the loaded battle_data.
RoundOutcomes(db, battle_id, clock, backend, battle_data) ==
    IF battle_data.current_round >= MaxRoundsHardCoded
    THEN {FinishBattle(db, "gladiator/next-round", battle_id, clock)}
    ELSE
    { LET after == AppendRound(battle_data, round_topic, a1, a2)
      IN  [db |-> [db EXCEPT ![GladiatorKey(battle_id)] =
                    [@ EXCEPT !.messages = Str(after),
                              !.drama_level = after.absurdity_level]],
           resp |-> [op |-> "gladiator/next-round", session_id |-> battle_id,
                     status |-> 200,
                     round_number |-> after.current_round,
                     round_topic |-> round_topic,
                     agent1_attack |-> a1, agent2_attack |-> a2,
                     absurdity_level |-> battle_data.absurdity_level,
                     battle_status |-> "voting_open"]] :
      round_topic \in AbsurdTopics(battle_data.topic, battle_data.absurdity_level),
      a1 \in GladiatorAttacks(backend, battle_data.agent1),
      a2 \in GladiatorAttacks(backend, battle_data.agent2) }

\* next_gladiator_round, served without interruption.
NextGladiatorRound(db, battle_id, clock, backend) ==
    LET loaded == LoadBattle(db, battle_id)
    IN  IF IsRaised(loaded)
        THEN {[db |-> db,
               resp |-> Http500("gladiator/next-round", battle_id, loaded.raised)]}
        ELSE RoundOutcomes(db, battle_id, clock, backend, loaded.value)

VotedAgents == {"agent1", "agent2", "nobody"}

\* RoundWinner with the second comparison weakened: equal tallies go to
\* agent2.
RoundWinner_TieToAgent2(votes) ==
    IF votes.agent1 > votes.agent2 THEN "agent1"
    ELSE IF votes.agent2 >= votes.agent1 THEN "agent2"
    ELSE "tie"

\* Lines 208-217 of vote_for_round
RoundWinner(votes) ==
    IF votes.agent1 > votes.agent2 THEN "agent1"
    ELSE IF votes.agent2 > votes.agent1 THEN "agent2"
    ELSE "tie"

\* vote_for_round
VoteForRound(db, request) ==
    LET op == "gladiator/vote"
        battle_id == request.battle_id
        battle_session == FetchOne(db, GladiatorKey(battle_id))
    IN  IF battle_session = <<>>
        THEN [db |-> db, resp |-> Http500(op, battle_id, "404: Battle not found")]
        ELSE
        LET parsed == Loads(battle_session[1].messages)
        IN  IF IsRaised(parsed)
            THEN [db |-> db, resp |-> Http500(op, battle_id, parsed.raised)]
            ELSE
            LET battle_data == parsed.value
                found == {i \in DOMAIN battle_data.rounds :
                            battle_data.rounds[i].round_number = request.round_number}
            IN  IF found = {}
                THEN [db |-> db, resp |-> Http500(op, battle_id, "404: Round not found")]
                ELSE
                LET i == CHOOSE x \in found : \A y \in found : x <= y
                    current_round == battle_data.rounds[i]
                    votes == IF request.voted_agent \in {"agent1", "agent2"}
                             THEN [current_round.votes EXCEPT
                                     ![request.voted_agent] = @ + 1]
                             ELSE current_round.votes
                    total_votes == votes.agent1 + votes.agent2
                IN  IF total_votes >= VoteThreshold
                    THEN
                    LET closed == [current_round EXCEPT
                                     !.votes = votes, !.winner = RoundWinner(votes)]
                        after == [battle_data EXCEPT !.rounds[i] = closed]
                    IN  [db |-> [db EXCEPT ![GladiatorKey(battle_id)] =
                                    [@ EXCEPT !.messages = Str(after)]],
                         resp |-> [op |-> op, session_id |-> battle_id,
                                   status |-> 200, round_finished |-> TRUE,
                                   round_number |-> request.round_number,
                                   voted_agent |-> request.voted_agent,
                                   winner |-> closed.winner, votes |-> votes,
                                   next_round_available |->
                                       battle_data.current_round < MaxRoundsHardCoded]]
                    ELSE
                    [db |-> db,
                     resp |-> [op |-> op, session_id |-> battle_id,
                               status |-> 200, vote_recorded |-> TRUE,
                               round_number |-> request.round_number,
                               voted_agent |-> request.voted_agent,
                               current_votes |-> votes,
                               round_finished |-> FALSE]]

(***************************************************************************)
(* The requests as the running program serves them                         *)
(***************************************************************************)
start_gladiator_battle ==
    \E request \in GladiatorBattleRequests :
        LET out == StartBattle(dialog_sessions, now, request, now)
        IN  /\ dialog_sessions' = out.db
            /\ resp' = out.resp
            /\ UNCHANGED <<now, tsunami_sessions, ufo_conspiracy_sessions,
                           inflight, gen, manager, tts>>

next_gladiator_round ==
    \E battle_id \in Clock, backend \in BackendOutcomes :
        \E out \in NextGladiatorRound(dialog_sessions, battle_id, now, backend) :
            /\ dialog_sessions' = out.db
            /\ resp' = out.resp
            /\ UNCHANGED <<now, tsunami_sessions, ufo_conspiracy_sessions,
                           inflight, gen, manager, tts>>

vote_for_round ==
    \E battle_id \in Clock, round_number \in 1..MaxRoundsHardCoded,
       voted_agent \in VotedAgents :
        LET out == VoteForRound(dialog_sessions,
                                [battle_id |-> battle_id,
                                 round_number |-> round_number,
                                 voted_agent |-> voted_agent])
        IN  /\ dialog_sessions' = out.db
            /\ resp' = out.resp
            /\ UNCHANGED <<now, tsunami_sessions, ufo_conspiracy_sessions,
                           inflight, gen, manager, tts>>

(***************************************************************************)
(* History export (history_router.py).  The chat_history rows the export   *)
(* reads are not part of the state: the answer is modelled by its status   *)
(* and format.  The request's optional filters are left unset.             *)
(***************************************************************************)
ExportFormats == {"json", "txt", "csv", "xml"}

\* The if/elif chain on request.format at the end of the try block.
ExportBody(format) ==
    IF format = "json" THEN Returned([format |-> "json"])
    ELSE IF format = "txt" THEN Returned([format |-> "txt"])
    ELSE IF format = "csv" THEN Returned([format |-> "csv"])
    ELSE Raised("400: Unsupported format")

\* export_history: the try block and its except Exception clause. The
\* answer is recorded together with the format the request asked for.
ExportHistory(request) ==
    LET op == "history/export"
        body == ExportBody(request.format)
    IN  IF IsRaised(body)
        THEN [op |-> op, requested |-> request.format, status |-> 500,
              detail |-> body.raised]
        ELSE [op |-> op, requested |-> request.format, status |-> 200,
              format |-> body.value.format]

export_history ==
    \E format \in ExportFormats :
        /\ resp' = ExportHistory([format |-> format])
        /\ UNCHANGED <<now, tsunami_sessions, ufo_conspiracy_sessions,
                       dialog_sessions, inflight, gen, manager, tts>>

\* A second of wall-clock time passes.
Tick ==
    /\ now < MaxClock
    /\ now' = now + 1
    /\ UNCHANGED <<tsunami_sessions, ufo_conspiracy_sessions, dialog_sessions,
                   inflight, gen, resp, manager, tts>>

Init ==
    /\ now = 1
    /\ tsunami_sessions = <<>>
    /\ ufo_conspiracy_sessions = <<>>
    /\ dialog_sessions = <<>>
    /\ inflight = <<>>
    /\ gen = [op |-> "none"]
    /\ manager = ConnectionManager
    /\ tts = TTSService
    /\ resp = NoResp

NextTsunami ==
    \/ start_tsunami
    \/ tsunami_next_round
    \/ tsunami_status
    \/ vote_best_deception
    \/ Tick

SpecTsunami == Init /\ [][NextTsunami]_vars

NextUfo ==
    \/ start_ufo_conspiracy
    \/ next_ufo_round
    \/ ufo_conspiracy_status
    \/ vote_conspiracy_master
    \/ Tick

SpecUfo == Init /\ [][NextUfo]_vars

\* Both in-memory modes served by one process within one second of the clock.
NextModes ==
    \/ start_tsunami
    \/ tsunami_next_round
    \/ tsunami_status
    \/ vote_best_deception
    \/ start_ufo_conspiracy
    \/ next_ufo_round
    \/ ufo_conspiracy_status
    \/ vote_conspiracy_master

SpecModes == Init /\ [][NextModes]_vars

Next ==
    \/ start_gladiator_battle
    \/ next_gladiator_round
    \/ vote_for_round
    \/ export_history
    \/ Tick

Spec == Init /\ [][Next]_vars

\* The generate methods of the service, called one after another.
NextGen ==
    \/ chat
    \/ generate_creative_content

SpecGen == Init /\ [][NextGen]_vars

(***************************************************************************)
(* The handlers over rows already in the table.  dialog_sessions is a      *)
(* table of the database file, which outlives the process; the handlers    *)
(* parse its messages column as JSON.  Here the table starts with one      *)
(* battle whose messages column is a JSON document of the shape the        *)
(* handlers maintain: rounds numbered 1..current_round, a winner exactly   *)
(* on the rounds vote_for_round has written, inactive only after the       *)
(* fifth round.                                                            *)
(***************************************************************************)
MaxVotes == 4
MaxVotedRounds == 1

\* A round record as vote_for_round and next_gladiator_round leave it: the
\* winner is written by the request that finds the total at the threshold.
StoredRound(round_number, votes) ==
    [ RoundData(round_number, Apology, Apology, 10, <<"topic">>)
        EXCEPT !.votes = votes,
               !.winner = IF votes.agent1 + votes.agent2 < 3 THEN None
                          ELSE IF votes.agent1 > votes.agent2 THEN "agent1"
                          ELSE IF votes.agent1 < votes.agent2 THEN "agent2"
                          ELSE "tie" ]

Tallies ==
    {[agent1 |-> a, agent2 |-> b] : a \in 0..MaxVotes, b \in 0..MaxVotes}

StoredTallies == {votes \in Tallies : votes.agent1 + votes.agent2 <= MaxVotes}

\* One tally per outcome of a round: open, won by either agent, tied.
DecidedTallies ==
    {[agent1 |-> 1, agent2 |-> 0], [agent1 |-> 3, agent2 |-> 0],
     [agent1 |-> 1, agent2 |-> 2], [agent1 |-> 2, agent2 |-> 2]}

RoundLists(n, tallies) ==
    {[i \in 1..n |-> StoredRound(i, votes[i])] : votes \in [1..n -> tallies]}

StoredBattleData(rounds) ==
    [ BattleData(1, [agent1 |-> "Adam", agent2 |-> "Beata",
                     absurdity_start_level |-> 10], 1)
        EXCEPT !.rounds = rounds, !.current_round = Len(rounds) ]

StoredBattles ==
    {StoredBattleData(rounds) :
        rounds \in UNION {RoundLists(n, StoredTallies) : n \in 0..MaxVotedRounds}
                   \cup RoundLists(MaxRoundsHardCoded, DecidedTallies)}

StoredRows ==
    { [ BattleRow(1, [agent1 |-> "Adam", agent2 |-> "Beata",
                      absurdity_start_level |-> 10], battle_data)
          EXCEPT !.messages = JsonText(battle_data), !.is_active = active ] :
      battle_data \in StoredBattles, active \in BOOLEAN }

\* The table holds one of rows, and nothing has been requested yet.
InitWith(rows) ==
    /\ now = 1
    /\ tsunami_sessions = <<>>
    /\ ufo_conspiracy_sessions = <<>>
    /\ \E row \in rows : dialog_sessions = (row.key :> row.row)
    /\ inflight = <<>>
    /\ gen = [op |-> "none"]
    /\ manager = ConnectionManager
    /\ tts = TTSService
    /\ resp = NoResp

InitStored ==
    InitWith({[key |-> GladiatorKey(1), row |-> row] :
              row \in {r \in StoredRows :
                          r.is_active
                          \/ r.messages.data.current_round >= MaxRoundsHardCoded}})

NextStored ==
    \/ next_gladiator_round
    \/ vote_for_round

SpecStored == InitStored /\ [][NextStored]_vars

(***************************************************************************)
(* Karaoke mode (karaoke_router.py)                                        *)
(***************************************************************************)
SongPool == 2
MaxPerformances == 2

KaraokeParticipants ==
    {<<>>, <<"Adam", "Beata">>, <<"Adam", "Beata", "Watpiacy">>}
KaraokeThemes == {"Pop", "Jazz"}
MaxSongsRequested == {1, 3}

KaraokeStartRequests ==
    { [theme |-> t, participants |-> p, max_songs |-> m] :
      t \in KaraokeThemes, p \in KaraokeParticipants, m \in MaxSongsRequested }

\* night_data of start_karaoke_night: max_songs is not part of it.
NightData(night_id, request, start_time) ==
    [ night_id            |-> night_id,
      theme               |-> request.theme,
      participants        |-> request.participants,
      performances        |-> <<>>,
      current_performance |-> 0,
      audience_votes      |-> <<>>,
      special_moments     |-> <<>>,
      start_time          |-> start_time ]

NightRow(night_id, request, night_data) ==
    [ session_id  |-> night_id,
      agent1_name |-> IF Len(request.participants) > 0
                      THEN request.participants[1] ELSE "Adam",
      agent2_name |-> IF Len(request.participants) > 1
                      THEN request.participants[2] ELSE "Beata",
      topic       |-> <<"KARAOKE NIGHT", request.theme>>,
      messages    |-> Str(night_data),
      is_active   |-> TRUE,
      drama_level |-> 8 ]

StartNight(db, night_id, request, start_time) ==
    LET night_data == NightData(night_id, request, start_time)
        added == Insert(db, KaraokeKey(night_id),
                        NightRow(night_id, request, night_data))
    IN  IF IsRaised(added)
        THEN [db |-> db, resp |-> Http500("karaoke/start-night", night_id, added.raised)]
        ELSE [db |-> added.value,
              resp |-> [op |-> "karaoke/start-night", session_id |-> night_id,
                        status |-> 200, participants |-> request.participants,
                        max_songs |-> request.max_songs, stage_ready |-> TRUE]]

\* song_database.get(theme, song_database["Pop"]), then random.choice
ThemeSongs(theme) ==
    LET shelf == IF theme \in {"Pop", "Disco", "Rock", "Polish Hits"}
                 THEN theme ELSE "Pop"
    IN  {<<shelf, k>> : k \in 1..SongPool}

\* text[:500] + "...", as the list of its non-empty pieces; the generated
\* tag stands for a text of any length.
Lyrics(text) ==
    ( IF text = "" THEN <<>>
      ELSE IF text = "generated" THEN <<"generated[:500]">>
      ELSE <<text>> ) \o <<"...">>

\* generate_adam_performance and generate_beata_performance: the service
\* is constructed before the try block, the call is inside it.
GeneratePerformance(performer, song, backend) ==
    LET made == GenerateCreativeContent(OllamaService, backend)
    IN  IF IsRaised(made)
        THEN Returned([performer |-> performer, song |-> song,
                       lyrics |-> <<"fallback", performer>> \o song])
        ELSE Returned([performer |-> performer, song |-> song,
                       lyrics |-> Lyrics(made.text)])

\* generate_wapiacy_performance: line 407 calls Ollama_service(), a name the
\* module does not define, before the try block.
GenerateWapiacyPerformance(song, backend) == Raised("NameError")

\* generate_karaoke_performance: the outcomes it may have, one per song.
GenerateKaraokePerformance(performer, theme, backend) ==
    { IF performer = "Adam" THEN GeneratePerformance("Adam", song, backend)
      ELSE IF performer = "Beata" THEN GeneratePerformance("Beata", song, backend)
      ELSE GenerateWapiacyPerformance(song, backend) :
      song \in ThemeSongs(theme) }

\* Scores are whole numbers; an average is kept in hundredths.
RECURSIVE SumScores(_)
SumScores(votes) ==
    IF votes = <<>> THEN 0 ELSE votes[1].score + SumScores(Tail(votes))

\* A variant of the rounded average that cuts the digits off.
AvgScore_Truncated(votes) == (100 * SumScores(votes)) \div Len(votes)

\* round(sum(vote["score"] for vote in votes) / len(votes), 2), in
\* hundredths: the nearest hundredth (with at most MaxScores whole-number
\* scores no average lies half-way between two hundredths).
AvgScore(votes) == (200 * SumScores(votes) + Len(votes)) \div (2 * Len(votes))

\* The rankings dict of finish_karaoke_night, in insertion order: one
\* <<performer, score>> per distinct participant, or ZeroDivisionError for
\* a participant with an empty list of votes.
RECURSIVE RankingItems(_, _, _)
RankingItems(participants, audience_votes, seen) ==
    IF participants = <<>> THEN <<>>
    ELSE LET performer == participants[1]
             rest == RankingItems(Tail(participants), audience_votes,
                                  seen \cup {performer})
         IN  IF performer \in seen THEN rest
             ELSE <<<<performer,
                      IF performer \in DOMAIN audience_votes
                      THEN AvgScore(audience_votes[performer]) ELSE 0>>>> \o rest

RankingRaises(night_data) ==
    \E i \in DOMAIN night_data.participants :
        /\ night_data.participants[i] \in DOMAIN night_data.audience_votes
        /\ night_data.audience_votes[night_data.participants[i]] = <<>>

\* sorted(rankings.items(), key=lambda x: x[1], reverse=True): stable, so
\* items of equal score keep their insertion order.
RECURSIVE SortedRankings(_)
SortedRankings(items) ==
    IF items = <<>> THEN <<>>
    ELSE LET top == CHOOSE i \in DOMAIN items :
                      /\ \A j \in DOMAIN items : items[j][2] <= items[i][2]
                      /\ \A j \in DOMAIN items : items[j][2] = items[i][2] => i <= j
             others == [k \in 1..(Len(items) - 1) |->
                          IF k < top THEN items[k] ELSE items[k + 1]]
         IN  <<items[top]>> \o SortedRankings(others)

\* finish_karaoke_night, called from next_karaoke_performance (op).
FinishNight(db, op, night_id, clock) ==
    LET karaoke_session == FetchOne(db, KaraokeKey(night_id))
    IN  IF karaoke_session = <<>>
        THEN [db |-> db, resp |-> Http500(op, night_id, "AttributeError")]
        ELSE
        LET parsed == Loads(karaoke_session[1].messages)
        IN  IF IsRaised(parsed)
            THEN [db |-> db, resp |-> Http500(op, night_id, parsed.raised)]
            ELSE
            LET night_data == parsed.value
                sorted_rankings ==
                    SortedRankings(RankingItems(night_data.participants,
                                                night_data.audience_votes, {}))
            IN  IF RankingRaises(night_data)
                THEN [db |-> db, resp |-> Http500(op, night_id, "ZeroDivisionError")]
                ELSE
                [db |-> [db EXCEPT ![KaraokeKey(night_id)] =
                            [@ EXCEPT !.is_active = FALSE,
                                      !.messages = Str(night_data)]],
                 resp |-> [op |-> op, session_id |-> night_id, status |-> 200,
                           night_finished |-> TRUE,
                           final_rankings |-> sorted_rankings,
                           winner |-> IF sorted_rankings # <<>>
                                      THEN sorted_rankings[1][1] ELSE "Nobody",
                           total_performances |-> night_data.current_performance,
                           night_duration |-> clock - night_data.start_time]]

\* A variant of SelectPerformer that stays on the last participant instead
\* of starting over.
SelectPerformer_NoWrap(night_data) ==
    night_data.participants[
        Min(night_data.current_performance + 1, Len(night_data.participants))]

\* night_data["participants"][night_data["current_performance"] %
\* len(night_data["participants"])], with Python's indices from 0.
SelectPerformer(night_data) ==
    night_data.participants[
        (night_data.current_performance % Len(night_data.participants)) + 1]

\* A variant of next_karaoke_performance that persists the advanced counter
\* before the performance is generated, and whose generation then fails.
NextKaraokePerformance_WriteFirst(db, night_id, clock, backend) ==
    LET op == "karaoke/next-performance"
        karaoke_session == FetchOne(db, KaraokeKey(night_id))
    IN  IF karaoke_session = <<>>
        THEN {[db |-> db, resp |-> Http500(op, night_id, "404: Karaoke night not found")]}
        ELSE
        LET parsed == Loads(karaoke_session[1].messages)
        IN  IF IsRaised(parsed)
            THEN {[db |-> db, resp |-> Http500(op, night_id, parsed.raised)]}
            ELSE {[db |-> [db EXCEPT ![KaraokeKey(night_id)] =
                            [@ EXCEPT !.messages =
                                Str([parsed.value EXCEPT !.current_performance = @ + 1])]],
                   resp |-> Http500(op, night_id, "NameError")]}

\* next_karaoke_performance: the outcomes it may have, one per random draw.
NextKaraokePerformance(db, night_id, clock, backend) ==
    LET op == "karaoke/next-performance"
        karaoke_session == FetchOne(db, KaraokeKey(night_id))
    IN  IF karaoke_session = <<>>
        THEN {[db |-> db, resp |-> Http500(op, night_id, "404: Karaoke night not found")]}
        ELSE
        LET parsed == Loads(karaoke_session[1].messages)
        IN  IF IsRaised(parsed)
            THEN {[db |-> db, resp |-> Http500(op, night_id, parsed.raised)]}
            ELSE
            LET night_data == parsed.value
            IN  IF "max_songs" \notin DOMAIN night_data
                THEN {[db |-> db, resp |-> Http500(op, night_id, "KeyError: max_songs")]}
                ELSE IF night_data.current_performance >= night_data.max_songs
                THEN {FinishNight(db, op, night_id, clock)}
                ELSE IF Len(night_data.participants) = 0
                THEN {[db |-> db, resp |-> Http500(op, night_id, "ZeroDivisionError")]}
                ELSE
                LET performer == SelectPerformer(night_data)
                IN  { IF IsRaised(made)
                      THEN [db |-> db, resp |-> Http500(op, night_id, made.raised)]
                      ELSE
                      LET after == [night_data EXCEPT
                                      !.performances = Append(@, made.value),
                                      !.current_performance = @ + 1]
                      IN  [db |-> [db EXCEPT ![KaraokeKey(night_id)] =
                                    [@ EXCEPT !.messages = Str(after)]],
                           resp |-> [op |-> op, session_id |-> night_id,
                                     status |-> 200,
                                     performance_number |-> after.current_performance,
                                     performer |-> performer,
                                     song_title |-> made.value.song,
                                     lyrics |-> made.value.lyrics,
                                     voting_open |-> TRUE]] :
                      made \in GenerateKaraokePerformance(performer, night_data.theme,
                                                          backend) }

start_karaoke_night ==
    \E request \in KaraokeStartRequests :
        LET out == StartNight(dialog_sessions, now, request, now)
        IN  /\ dialog_sessions' = out.db
            /\ resp' = out.resp
            /\ UNCHANGED <<now, tsunami_sessions, ufo_conspiracy_sessions,
                           inflight, gen, manager, tts>>

\* gen records what the generation backend would answer during the request.
NextPerformanceOn(night_id) ==
    \E backend \in BackendOutcomes :
        \E out \in NextKaraokePerformance(dialog_sessions, night_id, now, backend) :
            /\ dialog_sessions' = out.db
            /\ resp' = out.resp
            /\ gen' = [op |-> "karaoke/next-performance", backend |-> backend]
            /\ UNCHANGED <<now, tsunami_sessions, ufo_conspiracy_sessions, inflight, manager, tts>>

next_karaoke_performance == \E night_id \in Clock : NextPerformanceOn(night_id)

\* Nights already in the table, their messages column a JSON document with
\* the keys next_karaoke_performance reads, max_songs among them or not.
StoredPerformance(performer) ==
    [performer |-> performer, song |-> <<"Pop", 1>>,
     lyrics |-> <<"fallback", performer, "Pop", 1>>]

StoredNights ==
    { LET request == [theme |-> "Pop", participants |-> p]
          started == NightData(1, request, 1)
          played == [started EXCEPT
                       !.current_performance = n,
                       !.performances =
                           [i \in 1..n |-> StoredPerformance(p[((i - 1) % Len(p)) + 1])]]
      IN  [ NightRow(1, request, played) EXCEPT
              !.messages = JsonText(IF m = 0 THEN played
                                    ELSE played @@ [max_songs |-> m]) ] :
      p \in KaraokeParticipants \ {<<>>}, n \in 0..MaxPerformances,
      m \in {0} \cup MaxSongsRequested }

InitKaraoke ==
    InitWith({[key |-> KaraokeKey(1), row |-> row] : row \in StoredNights})


\* audience_vote. The score is a float the request model does not bound;
\* the model sends whole numbers.
MaxScores == 3
ScoreValues == {1, 2}
VoterIds == {"v1", "v2"}
VotedPerformers == {"Adam", "Zenon"}

AudienceVoteRequests ==
    { [night_id |-> n, performer |-> p, score |-> sc, voter_id |-> v] :
      n \in Clock, p \in VotedPerformers, sc \in ScoreValues, v \in VoterIds }

\* Lines 170-178: the list of the performer is created when missing and the
\* vote is appended; voter_id is stored and never compared.
RecordVote(audience_votes, performer, vote) ==
    LET before == IF performer \in DOMAIN audience_votes
                  THEN audience_votes[performer] ELSE <<>>
    IN  [p \in (DOMAIN audience_votes) \cup {performer} |->
            IF p = performer THEN Append(before, vote) ELSE audience_votes[p]]

AudienceVote(db, request, clock) ==
    LET op == "karaoke/audience-vote"
        night_id == request.night_id
        karaoke_session == FetchOne(db, KaraokeKey(night_id))
    IN  IF karaoke_session = <<>>
        THEN [db |-> db, resp |-> Http500(op, night_id, "404: Karaoke night not found")]
        ELSE
        LET parsed == Loads(karaoke_session[1].messages)
        IN  IF IsRaised(parsed)
            THEN [db |-> db, resp |-> Http500(op, night_id, parsed.raised)]
            ELSE
            LET night_data == parsed.value
                audience_votes ==
                    RecordVote(night_data.audience_votes, request.performer,
                               [score |-> request.score,
                                voter_id |-> request.voter_id,
                                timestamp |-> clock])
                after == [night_data EXCEPT !.audience_votes = audience_votes]
                votes == audience_votes[request.performer]
            IN  [db |-> [db EXCEPT ![KaraokeKey(night_id)] =
                            [@ EXCEPT !.messages = Str(after)]],
                 resp |-> [op |-> op, session_id |-> night_id, status |-> 200,
                           vote_recorded |-> TRUE,
                           performer |-> request.performer,
                           current_average_score |-> AvgScore(votes),
                           total_votes |-> Len(votes)]]

audience_vote ==
    \E request \in AudienceVoteRequests :
        LET out == AudienceVote(dialog_sessions, request, now)
        IN  /\ dialog_sessions' = out.db
            /\ resp' = out.resp
            /\ UNCHANGED <<now, tsunami_sessions, ufo_conspiracy_sessions,
                           inflight, gen, manager, tts>>

\* Nights already in the table whose performances are all done, with the
\* votes the audience has given: per participant no list, or a list of one
\* to MaxScores votes. The messages column is a JSON document.
RECURSIVE VoteLists(_)
VoteLists(n) ==
    IF n = 0 THEN {}
    ELSE VoteLists(n - 1)
         \cup { [i \in 1..n |-> [score |-> f[i], voter_id |-> "v1", timestamp |-> 1]] :
                f \in [1..n -> ScoreValues] }

StoredAudienceVotes(participants) ==
    LET names == {participants[i] : i \in DOMAIN participants}
    IN  UNION { [voted -> VoteLists(MaxScores)] : voted \in SUBSET names }

ScoredParticipants == {<<"Adam", "Beata">>, <<"Beata", "Adam">>}

ScoredNight(participants, audience_votes) ==
    LET request == [theme |-> "Pop", participants |-> participants]
        started == NightData(1, request, 1)
        played == [started EXCEPT
                     !.current_performance = 1,
                     !.performances = <<StoredPerformance(participants[1])>>,
                     !.audience_votes = audience_votes]
    IN  [ NightRow(1, request, played) EXCEPT
            !.messages = JsonText(played @@ [max_songs |-> 1]) ]

ScoredNights ==
    UNION { { ScoredNight(p, av) : av \in StoredAudienceVotes(p) } :
            p \in ScoredParticipants }

InitScores ==
    InitWith({[key |-> KaraokeKey(1), row |-> row] : row \in ScoredNights})

\* Votes sent for nights that hold at most one vote per participant.
VotedNights ==
    UNION { { ScoredNight(p, av) :
              av \in UNION { [voted -> VoteLists(1)] :
                             voted \in SUBSET {p[i] : i \in DOMAIN p} } } :
            p \in ScoredParticipants }

InitVotes ==
    InitWith({[key |-> KaraokeKey(1), row |-> row] : row \in VotedNights})

NextVotes ==
    \/ audience_vote
    \/ Tick

SpecVotes == InitVotes /\ [][NextVotes]_vars

\* The nights with votes are finished by one more next-performance call.
NextScores == next_karaoke_performance

SpecScores == InitScores /\ [][NextScores]_vars

NextKaraoke ==
    \/ start_karaoke_night
    \/ next_karaoke_performance
    \/ Tick

SpecKaraoke == InitKaraoke /\ [][NextKaraoke]_vars

\* A client that keeps calling next-performance for every night: a call
\* that can change the state is not put off for ever.
SpecKaraokeFair ==
    /\ SpecKaraoke
    /\ \A night_id \in Clock : WF_vars(NextPerformanceOn(night_id))

(***************************************************************************)
(* Requests in flight.  Each request has its own database session          *)
(* (get_db), and a handler gives up control at every await: a second       *)
(* next-round request can be received between the select of the first and  *)
(* its commit.  The commit writes the messages column computed from the    *)
(* battle_data the request loaded.                                         *)
(***************************************************************************)
MaxRequests == 2

Requests == 1..MaxRequests

\* await db.execute(...) up to json.loads (lines 104-113)
receive_next_round(rid) ==
    /\ rid \notin DOMAIN inflight
    /\ \E battle_id \in Clock :
        LET loaded == LoadBattle(dialog_sessions, battle_id)
        IN  IF IsRaised(loaded)
            THEN /\ resp' = Http500("gladiator/next-round", battle_id, loaded.raised)
                 /\ inflight' = (rid :> [pc |-> "done", battle_id |-> battle_id,
                                         status |-> 500]) @@ inflight
            ELSE /\ resp' = resp
                 /\ inflight' = (rid :> [pc |-> "loaded", battle_id |-> battle_id,
                                         battle_data |-> loaded.value]) @@ inflight
    /\ UNCHANGED <<now, tsunami_sessions, ufo_conspiracy_sessions,
                   dialog_sessions, gen, manager, tts>>

\* The rest of the handler, up to await db.commit() and the return.
commit_next_round(rid) ==
    /\ rid \in DOMAIN inflight
    /\ inflight[rid].pc = "loaded"
    /\ \E backend \in BackendOutcomes :
        \E out \in RoundOutcomes(dialog_sessions, inflight[rid].battle_id, now,
                                 backend, inflight[rid].battle_data) :
            /\ dialog_sessions' = out.db
            /\ resp' = out.resp
            /\ inflight' = [inflight EXCEPT ![rid] =
                              [pc |-> "done", battle_id |-> @.battle_id,
                               status |-> out.resp.status,
                               loaded_round |-> @.battle_data.current_round,
                               appended |-> "round_number" \in DOMAIN out.resp]]
    /\ UNCHANGED <<now, tsunami_sessions, ufo_conspiracy_sessions, gen, manager, tts>>

InitConc ==
    InitWith({[key |-> GladiatorKey(1), row |-> row] :
              row \in {r \in StoredRows :
                          /\ r.is_active
                          /\ r.messages.data.current_round <= MaxVotedRounds}})

NextConc ==
    \/ \E rid \in Requests : receive_next_round(rid)
    \/ \E rid \in Requests : commit_next_round(rid)

SpecConc == InitConc /\ [][NextConc]_vars

\* vote_for_round up to json.loads (lines 174-192): the request has selected
\* the row and parsed its messages column.
receive_vote(rid) ==
    /\ rid \notin DOMAIN inflight
    /\ \E battle_id \in Clock, round_number \in 1..MaxRoundsHardCoded,
          voted_agent \in VotedAgents :
        LET loaded == LoadBattle(dialog_sessions, battle_id)
            request == [battle_id |-> battle_id, round_number |-> round_number,
                        voted_agent |-> voted_agent]
        IN  IF IsRaised(loaded)
            THEN /\ resp' = Http500("gladiator/vote", battle_id, loaded.raised)
                 /\ inflight' = (rid :> [pc |-> "done", battle_id |-> battle_id,
                                         status |-> 500]) @@ inflight
            ELSE /\ resp' = resp
                 /\ inflight' = (rid :> [pc |-> "vote_loaded",
                                         battle_id |-> battle_id,
                                         request |-> request,
                                         battle_data |-> loaded.value]) @@ inflight
    /\ UNCHANGED <<now, tsunami_sessions, ufo_conspiracy_sessions,
                   dialog_sessions, gen, manager, tts>>

\* The rest of vote_for_round (lines 194-237), on the battle_data the request
\* loaded: when the round closes, the messages column is written from it.
commit_vote(rid) ==
    /\ rid \in DOMAIN inflight
    /\ inflight[rid].pc = "vote_loaded"
    /\ LET key == GladiatorKey(inflight[rid].battle_id)
           seen == [dialog_sessions EXCEPT
                      ![key].messages = JsonText(inflight[rid].battle_data)]
           out == VoteForRound(seen, inflight[rid].request)
       IN  /\ dialog_sessions' = IF out.db = seen THEN dialog_sessions ELSE out.db
           /\ resp' = out.resp
           /\ inflight' = [inflight EXCEPT ![rid] =
                             [pc |-> "done", battle_id |-> @.battle_id,
                              status |-> out.resp.status,
                              request |-> @.request,
                              wrote |-> out.db # seen]]
    /\ UNCHANGED <<now, tsunami_sessions, ufo_conspiracy_sessions, gen, manager, tts>>

\* Battles before the first round, in the first round, and one round before
\* and at the hard-coded last round, every stored round one vote short of
\* the threshold.
ConcRoundCounts == {0, 1, MaxRoundsHardCoded - 1, MaxRoundsHardCoded}

ConcRows ==
    { [ BattleRow(1, [agent1 |-> "Adam", agent2 |-> "Beata",
                      absurdity_start_level |-> 10], battle_data)
          EXCEPT !.messages = JsonText(battle_data) ] :
      battle_data \in
        UNION { {StoredBattleData(rounds) :
                   rounds \in RoundLists(n, {[agent1 |-> 1, agent2 |-> 1]})} :
                n \in ConcRoundCounts } }

InitConcVotes ==
    InitWith({[key |-> GladiatorKey(1), row |-> row] : row \in ConcRows})

\* Next-round and vote requests in flight together.
NextConcVotes ==
    \/ \E rid \in Requests : receive_next_round(rid)
    \/ \E rid \in Requests : commit_next_round(rid)
    \/ \E rid \in Requests : receive_vote(rid)
    \/ \E rid \in Requests : commit_vote(rid)

SpecConcVotes == InitConcVotes /\ [][NextConcVotes]_vars

(***************************************************************************)
(* SplitDialogAgent.generate_dialog (services/agent_service.py).  gen      *)
(* holds the running call: the loop variables and the dialog so far.  The  *)
(* agent's service is the OllamaService() its constructor makes; a service *)
(* that was entered is drawn as well, so that generated text occurs.       *)
(***************************************************************************)
MaxTurns == 3

DialogServices == {OllamaService, EnteredService(<<"mistral">>)}

\* _add_agent_flavor, on a text as the list of its pieces: Adam gets "!"
\* unless the text ends with it and the emoji unless the text has it; Beata
\* gets the question when the text has no "?" and more than 5 words.  Of
\* the texts the service gives only the apology ends with "!" and has more
\* than 5 words.
AddAgentFlavor(response, agent_name) ==
    IF agent_name = "Adam"
    THEN <<response>>
         \o (IF response = Apology THEN <<>> ELSE <<"!">>)
         \o <<"smile">>
    ELSE IF agent_name = "Beata"
    THEN <<response>>
         \o (IF response = Apology THEN <<"Czy to ma sens?">> ELSE <<>>)
    ELSE <<response>>

\* _generate_agent_response: generate_creative_content returns a text in
\* every case, so the except branch with _get_fallback_response is not taken.
GenerateAgentResponse(service, agent_name, backend) ==
    AddAgentFlavor(GenerateCreativeContent(service, backend).text, agent_name)

\* A variant of NextSpeaker that keeps Beata once she has spoken.
NextSpeaker_KeepsBeata(current_agent) == "Beata"

\* current_agent = "Beata" if current_agent == "Adam" else "Adam"
NextSpeaker(current_agent) ==
    IF current_agent = "Adam" THEN "Beata" ELSE "Adam"

\* Lines 31-35: the call is received and the loop variables are set up.
\* max_turns is an int the request model does not bound.
generate_dialog ==
    /\ IF gen.op = "generate_dialog" THEN gen.returned ELSE TRUE
    /\ \E max_turns \in (-1)..MaxTurns, service \in DialogServices :
        gen' = [op |-> "generate_dialog", service |-> service,
                max_turns |-> max_turns, turn |-> 0,
                current_agent |-> "Adam", dialog |-> <<>>,
                returned |-> FALSE]
    /\ UNCHANGED <<now, tsunami_sessions, ufo_conspiracy_sessions,
                   dialog_sessions, inflight, resp, manager, tts>>

\* Lines 37-55: one pass of for turn in range(max_turns).
generate_dialog_turn ==
    /\ gen.op = "generate_dialog"
    /\ ~gen.returned
    /\ gen.turn < gen.max_turns
    /\ \E backend \in BackendOutcomes :
        LET response == GenerateAgentResponse(gen.service, gen.current_agent,
                                              backend)
        IN  gen' = [gen EXCEPT
                      !.dialog = Append(@, [agent |-> gen.current_agent,
                                            text |-> response,
                                            timestamp |-> now,
                                            turn |-> gen.turn + 1]),
                      !.current_agent = NextSpeaker(@),
                      !.turn = @ + 1]
    /\ UNCHANGED <<now, tsunami_sessions, ufo_conspiracy_sessions,
                   dialog_sessions, inflight, resp, manager, tts>>

\* Line 57: return dialog, once range(max_turns) is used up.
generate_dialog_return ==
    /\ gen.op = "generate_dialog"
    /\ ~gen.returned
    /\ gen.turn >= gen.max_turns
    /\ gen' = [gen EXCEPT !.returned = TRUE]
    /\ UNCHANGED <<now, tsunami_sessions, ufo_conspiracy_sessions,
                   dialog_sessions, inflight, resp, manager, tts>>

NextDialog ==
    \/ generate_dialog
    \/ generate_dialog_turn
    \/ generate_dialog_return
    \/ Tick

SpecDialog == Init /\ [][NextDialog]_vars

(***************************************************************************)
(* ConnectionManager (app/websocket.py).  The methods run as the code      *)
(* writes them; the messages they send are recorded in resp as the list of *)
(* the client ids they are delivered to.                                   *)
(***************************************************************************)
MaxClients == 2
MaxMembers == 3

ClientIds == 1..MaxClients
WsSessionIds == {"s1", "s2"}

\* list.remove(x): the list without the first entry equal to x.
RECURSIVE Remove(_, _)
Remove(list, x) ==
    IF list = <<>> THEN <<>>
    ELSE IF list[1] = x THEN Tail(list)
    ELSE <<list[1]>> \o Remove(Tail(list), x)

\* The position of session_id in the items, or 0.
RECURSIVE ItemIndex(_, _)
ItemIndex(items, session_id) ==
    IF items = <<>> THEN 0
    ELSE IF items[Len(items)].session_id = session_id THEN Len(items)
    ELSE ItemIndex(SubSeq(items, 1, Len(items) - 1), session_id)

\* del d[key]
DelItem(items, i) == SubSeq(items, 1, i - 1) \o SubSeq(items, i + 1, Len(items))

\* send_to_session: one send per entry of the session's list that is an
\* active connection, in list order.
SendToSession(m, session_id) ==
    LET i == ItemIndex(m.dialog_sessions, session_id)
    IN  IF i = 0 THEN <<>>
        ELSE SelectSeq(m.dialog_sessions[i].clients,
                       LAMBDA c : c \in m.active_connections)

\* The for loop of disconnect over self.dialog_sessions.items(): the items
\* as the loop leaves them and whether it raised.  del inside the loop
\* changes the dict's size, and the iterator raises RuntimeError when it is
\* asked for the next item, also when no item is left.
RECURSIVE RemoveFromSessions(_, _)
RemoveFromSessions(items, client_id) ==
    IF items = <<>> THEN [items |-> <<>>, raised |-> None]
    ELSE IF client_id \notin {items[1].clients[k] : k \in DOMAIN items[1].clients}
    THEN LET later == RemoveFromSessions(Tail(items), client_id)
         IN  [items |-> <<items[1]>> \o later.items, raised |-> later.raised]
    ELSE LET clients == Remove(items[1].clients, client_id)
         IN  IF clients = <<>>
             THEN [items |-> Tail(items), raised |-> "RuntimeError"]
             ELSE LET later == RemoveFromSessions(Tail(items), client_id)
                  IN  [items |-> <<[items[1] EXCEPT !.clients = clients]>>
                                 \o later.items,
                       raised |-> later.raised]

\* connect: the socket is accepted and stored under client_id.
ws_connect ==
    /\ \E client_id \in ClientIds :
        /\ manager' = [manager EXCEPT !.active_connections = @ \cup {client_id}]
        /\ resp' = [op |-> "ws/connect", client_id |-> client_id,
                    raised |-> None, delivered |-> <<client_id>>]
    /\ UNCHANGED <<now, tsunami_sessions, ufo_conspiracy_sessions,
                   dialog_sessions, inflight, gen, tts>>

\* disconnect
ws_disconnect ==
    /\ \E client_id \in ClientIds :
        LET out == RemoveFromSessions(manager.dialog_sessions, client_id)
        IN  /\ manager' = [active_connections |->
                               manager.active_connections \ {client_id},
                           dialog_sessions |-> out.items]
            /\ resp' = [op |-> "ws/disconnect", client_id |-> client_id,
                        raised |-> out.raised, delivered |-> <<>>]
    /\ UNCHANGED <<now, tsunami_sessions, ufo_conspiracy_sessions,
                   dialog_sessions, inflight, gen, tts>>

\* join_dialog_session: the client is appended whether or not it is in the
\* list already, then the session is notified.
join_dialog_session ==
    /\ \E session_id \in WsSessionIds, client_id \in ClientIds :
        LET i == ItemIndex(manager.dialog_sessions, session_id)
            items == IF i = 0
                     THEN Append(manager.dialog_sessions,
                                 [session_id |-> session_id, clients |-> <<>>])
                     ELSE manager.dialog_sessions
            j == IF i = 0 THEN Len(items) ELSE i
            joined == [manager EXCEPT
                         !.dialog_sessions =
                             [items EXCEPT ![j].clients = Append(@, client_id)]]
        IN  /\ Len(items[j].clients) < MaxMembers
            /\ manager' = joined
            /\ resp' = [op |-> "ws/join_dialog_session", client_id |-> client_id,
                        session_id |-> session_id, raised |-> None,
                        delivered |-> SendToSession(joined, session_id)]
    /\ UNCHANGED <<now, tsunami_sessions, ufo_conspiracy_sessions,
                   dialog_sessions, inflight, gen, tts>>

\* leave_dialog_session: one entry is removed, the session is notified, and
\* the session is deleted when its list is empty.
leave_dialog_session ==
    /\ \E session_id \in WsSessionIds, client_id \in ClientIds :
        LET i == ItemIndex(manager.dialog_sessions, session_id)
        IN  IF i = 0
               \/ client_id \notin {manager.dialog_sessions[i].clients[k] :
                                      k \in DOMAIN manager.dialog_sessions[i].clients}
            THEN /\ manager' = manager
                 /\ resp' = [op |-> "ws/leave_dialog_session",
                             client_id |-> client_id, session_id |-> session_id,
                             raised |-> None, delivered |-> <<>>]
            ELSE LET left == [manager EXCEPT
                                !.dialog_sessions[i].clients = Remove(@, client_id)]
                 IN  /\ manager' = IF left.dialog_sessions[i].clients = <<>>
                                   THEN [left EXCEPT !.dialog_sessions = DelItem(@, i)]
                                   ELSE left
                     /\ resp' = [op |-> "ws/leave_dialog_session",
                                 client_id |-> client_id, session_id |-> session_id,
                                 raised |-> None,
                                 delivered |-> SendToSession(left, session_id)]
    /\ UNCHANGED <<now, tsunami_sessions, ufo_conspiracy_sessions,
                   dialog_sessions, inflight, gen, tts>>

NextWs ==
    \/ ws_connect
    \/ ws_disconnect
    \/ join_dialog_session
    \/ leave_dialog_session

SpecWs == Init /\ [][NextWs]_vars

(***************************************************************************)
(* TTSService (services/tts_service.py).  Audio bytes are modelled by what *)
(* determines them: the engine, the text spoken and the voice settings in  *)
(* force.  Next to the bytes a cache entry keeps the request they were     *)
(* made for, so that the properties of the cache can be stated.            *)
(***************************************************************************)
TtsTexts == {"t1", "t2"}
TtsSpeeds == {1}
TtsEmotions == {"neutral", "happy"}
VoiceIds == {None, "voice_a"}
VoiceRates == {150, 130}
Langs == {"pl", "en"}

\* voice_config with its properties rate, voice_id and lang; the voices of
\* the router differ in rate (150 for adam, 130 for beata).
VoiceConfigs ==
    {[engine |-> "pyttsx3", voice_id |-> v, rate |-> r, lang |-> "pl"] :
        v \in VoiceIds, r \in VoiceRates}
    \cup {[engine |-> "gtts", voice_id |-> None, rate |-> 150, lang |-> l] :
             l \in Langs}
    \cup {[engine |-> "espeak", voice_id |-> None, rate |-> 150, lang |-> "pl"]}

SpeechRequests ==
    { [text |-> t, voice_config |-> vc, speed |-> sp, pitch |-> 1,
       emotion |-> em] :
      t \in TtsTexts, vc \in VoiceConfigs, sp \in TtsSpeeds, em \in TtsEmotions }

\* _apply_emotion_to_text: a text with an emotion the table knows gets a
\* suffix from random.choice, and the module does not import random.
ApplyEmotionToText(text, emotion) ==
    IF emotion \in {"happy", "sad", "angry", "surprised", "doubtful", "excited"}
    THEN Raised("NameError")
    ELSE Returned(text)

\* f"pyttsx3_{hash(text)}_{speed}_{pitch}_{emotion}"; hash is taken to
\* tell the texts of the model apart.
Pyttsx3Key(request) ==
    <<"pyttsx3", request.text, request.speed, request.pitch, request.emotion>>

\* f"gtts_{hash(text)}_{speed}"
GttsKey(request) == <<"gtts", request.text, request.speed>>

CachePut(cache, key, entry) ==
    [k \in (DOMAIN cache) \cup {key} |-> IF k = key THEN entry ELSE cache[k]]

\* _generate_pyttsx3_speech.  engine_ok is whether pyttsx3.init() works when
\* it is first called; the voice set on the engine stays until it is set
\* again.
GeneratePyttsx3Speech(service, request, engine_ok) ==
    IF service.pyttsx3_engine = None /\ ~engine_ok
    THEN [service |-> service, out |-> Raised("pyttsx3 not available")]
    ELSE
    LET engine == IF service.pyttsx3_engine = None THEN "default"
                  ELSE service.pyttsx3_engine
        ready == [service EXCEPT !.pyttsx3_engine = engine]
        cache_key == Pyttsx3Key(request)
    IN  IF cache_key \in DOMAIN service.audio_cache
        THEN [service |-> ready,
              out |-> Returned([audio |-> service.audio_cache[cache_key].audio,
                                from_cache |-> TRUE,
                                cached_for |-> service.audio_cache[cache_key].request])]
        ELSE
        LET voice == IF request.voice_config.voice_id # None
                     THEN request.voice_config.voice_id ELSE engine
            voiced == [ready EXCEPT !.pyttsx3_engine = voice]
            spoken == IF request.emotion # "neutral"
                      THEN ApplyEmotionToText(request.text, request.emotion)
                      ELSE Returned(request.text)
        IN  IF IsRaised(spoken)
            THEN [service |-> voiced, out |-> spoken]
            ELSE
            LET audio_data == <<"pyttsx3", spoken.value, voice,
                               request.voice_config.rate * request.speed>>
            IN  [service |-> [voiced EXCEPT !.audio_cache =
                                CachePut(@, cache_key,
                                         [audio |-> audio_data, request |-> request])],
                 out |-> Returned([audio |-> audio_data, from_cache |-> FALSE,
                                cached_for |-> request])]

\* _generate_gtts_speech
GenerateGttsSpeech(service, request) ==
    LET cache_key == GttsKey(request)
    IN  IF cache_key \in DOMAIN service.audio_cache
        THEN [service |-> service,
              out |-> Returned([audio |-> service.audio_cache[cache_key].audio,
                                from_cache |-> TRUE,
                                cached_for |-> service.audio_cache[cache_key].request])]
        ELSE
        LET audio_data == <<"gtts", request.text, request.voice_config.lang, 0>>
        IN  [service |-> [service EXCEPT !.audio_cache =
                            CachePut(@, cache_key,
                                     [audio |-> audio_data, request |-> request])],
             out |-> Returned([audio |-> audio_data, from_cache |-> FALSE,
                                cached_for |-> request])]

\* generate_speech
GenerateSpeech(service, request, engine_ok) ==
    IF request.voice_config.engine = "pyttsx3"
    THEN GeneratePyttsx3Speech(service, request, engine_ok)
    ELSE IF request.voice_config.engine = "gtts"
    THEN GenerateGttsSpeech(service, request)
    ELSE [service |-> service, out |-> Raised("ValueError")]

generate_speech ==
    /\ \E request \in SpeechRequests, engine_ok \in BOOLEAN :
        LET made == GenerateSpeech(tts, request, engine_ok)
        IN  /\ tts' = made.service
            /\ resp' = [op |-> "tts/generate_speech", request |-> request,
                        out |-> made.out]
    /\ UNCHANGED <<now, tsunami_sessions, ufo_conspiracy_sessions,
                   dialog_sessions, inflight, gen, manager>>

\* clear_cache
clear_cache ==
    /\ tts' = [tts EXCEPT !.audio_cache = <<>>]
    /\ resp' = [op |-> "tts/clear_cache", out |-> Returned(TRUE)]
    /\ UNCHANGED <<now, tsunami_sessions, ufo_conspiracy_sessions,
                   dialog_sessions, inflight, gen, manager>>

NextTts ==
    \/ generate_speech
    \/ clear_cache

SpecTts == Init /\ [][NextTts]_vars

(***************************************************************************)
(* Claims                                                                  *)
(***************************************************************************)
\* The dictionary stored for a battle.
Battle(db, battle_id) == db[GladiatorKey(battle_id)].messages.data

Changed == resp' # resp

\* C1 (as claimed): in every mode the round number is 1 right after start,
\* grows by exactly 1 with every successful advance, and never decreases,
\* whatever start, advance, vote and status calls are made.
C1_RoundNumberLaw ==
    [][ /\ resp'.op = "tsunami/start-tsunami"
           => tsunami_sessions'[resp'.session_id].round_number = 1
        /\ (resp'.op = "gladiator/start-battle" /\ resp'.status = 200)
           => Battle(dialog_sessions', resp'.session_id).current_round = 1
        /\ \A s \in (DOMAIN tsunami_sessions) \cap (DOMAIN tsunami_sessions') :
            /\ tsunami_sessions'[s].round_number >= tsunami_sessions[s].round_number
            /\ (Changed /\ resp'.op = "tsunami/next-round" /\ resp'.status = 200
                /\ resp'.session_id = s)
               => tsunami_sessions'[s].round_number
                    = tsunami_sessions[s].round_number + 1
        /\ \A s \in (DOMAIN ufo_conspiracy_sessions) \cap (DOMAIN ufo_conspiracy_sessions') :
            ufo_conspiracy_sessions'[s].round_number
                >= ufo_conspiracy_sessions[s].round_number
        /\ \A k \in (DOMAIN dialog_sessions) \cap (DOMAIN dialog_sessions') :
            k[1] = "gladiator" =>
            /\ Battle(dialog_sessions', k[2]).current_round
                 >= Battle(dialog_sessions, k[2]).current_round
            /\ (Changed /\ resp'.op = "gladiator/next-round" /\ resp'.status = 200
                /\ resp'.session_id = k[2] /\ "round_number" \in DOMAIN resp')
               => Battle(dialog_sessions', k[2]).current_round
                    = Battle(dialog_sessions, k[2]).current_round + 1
      ]_vars

C5_MaxRoundsHonoured ==
    [][ ( /\ resp.op = "gladiator/start-battle" /\ resp.status = 200
          /\ Changed
          /\ resp'.op = "gladiator/next-round"
          /\ resp'.session_id = resp.session_id )
        => LET before == Battle(dialog_sessions, resp.session_id)
               after == Battle(dialog_sessions', resp.session_id)
           IN  /\ before.current_round = 1
               /\ before.current_round + 1 > resp.max_rounds
                  => /\ "final_winner" \in DOMAIN resp'
                     /\ after.rounds = before.rounds
                     /\ ~dialog_sessions'[GladiatorKey(resp.session_id)].is_active
      ]_vars

RECURSIVE RoundsWon(_, _)
RoundsWon(rounds, who) ==
    IF rounds = <<>> THEN 0
    ELSE (IF Head(rounds).winner = who THEN 1 ELSE 0) + RoundsWon(Tail(rounds), who)

\* C6: the final summary names as final winner the agent who won strictly
\* more rounds and "tie" when both won equally many; rounds that ended in a
\* tie or have no winner count for neither agent.
C6_FinalWinnerByWinCount ==
    [][ ( /\ Changed
          /\ resp'.op = "gladiator/next-round" /\ resp'.status = 200
          /\ "battle_finished" \in DOMAIN resp' )
        => LET before == Battle(dialog_sessions, resp'.session_id)
               won1 == RoundsWon(before.rounds, "agent1")
               won2 == RoundsWon(before.rounds, "agent2")
           IN  /\ resp'.agent1_wins = won1
               /\ resp'.agent2_wins = won2
               /\ won1 > won2 => resp'.final_winner = before.agent1
               /\ won2 > won1 => resp'.final_winner = before.agent2
               /\ won1 = won2 => resp'.final_winner = "tie"
      ]_vars

\* A battle with round winners agent1, agent1, agent2 and two rounds that
\* count for neither has been finished, and agent1 was declared.
C6_Witness ==
    /\ resp.op = "gladiator/next-round" /\ resp.status = 200
    /\ "battle_finished" \in DOMAIN resp
    /\ resp.agent1_wins = 2 /\ resp.agent2_wins = 1
    /\ resp.final_winner = "Adam"
    /\ \E i \in DOMAIN Battle(dialog_sessions, resp.session_id).rounds :
         Battle(dialog_sessions, resp.session_id).rounds[i].winner = "tie"
    /\ ~dialog_sessions[GladiatorKey(resp.session_id)].is_active

C9_WinnerMatchesTally ==
    \A k \in DOMAIN dialog_sessions :
      k[1] = "gladiator" =>
      \A i \in DOMAIN Battle(dialog_sessions, k[2]).rounds :
        LET round == Battle(dialog_sessions, k[2]).rounds[i]
            a == round.votes.agent1
            b == round.votes.agent2
        IN  /\ round.winner # None
               => /\ a + b >= 3
                  /\ a > b => round.winner = "agent1"
                  /\ b > a => round.winner = "agent2"
                  /\ a = b => round.winner = "tie"
            /\ a + b < 3 => round.winner = None

\* A vote request has just closed a round: the response reports the winner
\* and the stored round carries it.
C9_Witness ==
    /\ resp.op = "gladiator/vote" /\ resp.status = 200
    /\ resp.round_finished
    /\ resp.winner = "agent2"
    /\ \E i \in DOMAIN Battle(dialog_sessions, resp.session_id).rounds :
        LET round == Battle(dialog_sessions, resp.session_id).rounds[i]
        IN  /\ round.round_number = resp.round_number
            /\ round.votes = [agent1 |-> 1, agent2 |-> 2]
            /\ round.winner = "agent2"


AsksForPerformance(db, night_id) ==
    /\ KaraokeKey(night_id) \in DOMAIN db
    /\ ~IsRaised(Loads(db[KaraokeKey(night_id)].messages))
    /\ LET night_data == db[KaraokeKey(night_id)].messages.data
       IN  /\ "max_songs" \in DOMAIN night_data
           /\ night_data.current_performance < night_data.max_songs
           /\ night_data.participants # <<>>

C11_FreshSessionId ==
    [][ /\ (resp'.op = "tsunami/start-tsunami"
            /\ tsunami_sessions' # tsunami_sessions)
           => resp'.session_id \notin DOMAIN tsunami_sessions
        /\ (resp'.op = "ufo/start-ufo-conspiracy"
            /\ ufo_conspiracy_sessions' # ufo_conspiracy_sessions)
           => resp'.session_id \notin DOMAIN ufo_conspiracy_sessions ]_vars

\* The steps of next_round and next_ufo_round that advance session s.
TsunamiAdvanced(s) ==
    /\ resp'.op = "tsunami/next-round"
    /\ s \in DOMAIN tsunami_sessions
    /\ tsunami_sessions'[s] # tsunami_sessions[s]

UfoAdvanced(s) ==
    /\ resp'.op = "ufo/next-ufo-round"
    /\ s \in DOMAIN ufo_conspiracy_sessions
    /\ ufo_conspiracy_sessions'[s] # ufo_conspiracy_sessions[s]

\* C12: in tsunami and UFO mode chaos_level stays within the mode's bounds
\* in every state a step leads to (1..10 and 5..15), a start stores the
\* mode's first level (1 and 5), and an advance raises the level by the
\* mode's increment (1 and 2) up to the ceiling and never lowers it.
C12_ChaosLevelLaw ==
    [][ /\ \A s \in DOMAIN tsunami_sessions' :
              tsunami_sessions'[s].chaos_level \in 1..10
        /\ \A s \in DOMAIN ufo_conspiracy_sessions' :
              ufo_conspiracy_sessions'[s].chaos_level \in 5..15
        /\ resp'.op = "tsunami/start-tsunami"
              => /\ tsunami_sessions'[resp'.session_id].chaos_level = 1
                 /\ resp'.chaos_level = 1
        /\ resp'.op = "ufo/start-ufo-conspiracy"
              => /\ ufo_conspiracy_sessions'[resp'.session_id].chaos_level = 5
                 /\ resp'.chaos_level = 5
        /\ \A s \in DOMAIN tsunami_sessions' :
              TsunamiAdvanced(s) =>
                LET old == tsunami_sessions[s].chaos_level
                    new == tsunami_sessions'[s].chaos_level
                IN  /\ new >= old
                    /\ new = IF old + 1 <= 10 THEN old + 1 ELSE 10
        /\ \A s \in DOMAIN ufo_conspiracy_sessions' :
              UfoAdvanced(s) =>
                LET old == ufo_conspiracy_sessions[s].chaos_level
                    new == ufo_conspiracy_sessions'[s].chaos_level
                IN  /\ new >= old
                    /\ new = IF old + 2 <= 15 THEN old + 2 ELSE 15
      ]_vars

\* A UFO session that was advanced past its ceiling (round 7 would be level
\* 17) next to a tsunami session that has been advanced.
C12_Witness ==
    /\ \E s \in DOMAIN ufo_conspiracy_sessions :
          /\ ufo_conspiracy_sessions[s].round_number >= 7
          /\ ufo_conspiracy_sessions[s].chaos_level = 15
    /\ \E s \in DOMAIN tsunami_sessions :
          /\ tsunami_sessions[s].round_number >= 3
          /\ tsunami_sessions[s].chaos_level >= 3

\* C14: the phase a session holds is the function of its round_number that
\* the mode's thresholds give, whatever its random draws, beliefs and
\* evidence; so two sessions at one round_number are in one phase.
C14_PhaseByRound ==
    /\ \A s \in DOMAIN tsunami_sessions :
          LET r == tsunami_sessions[s].round_number
          IN  tsunami_sessions[s].phase =
                CASE r <= 3 -> "forgetting"
                  [] r > 3 /\ r <= 6 -> "intrigue"
                  [] r > 6 /\ r <= 9 -> "tsunami"
                  [] r > 9 -> "chaos"
    /\ \A s \in DOMAIN ufo_conspiracy_sessions :
          LET r == ufo_conspiracy_sessions[s].round_number
          IN  ufo_conspiracy_sessions[s].phase =
                CASE r <= 3 -> "ufo_sighting"
                  [] r > 3 /\ r <= 6 -> "conspiracy_theory"
                  [] r > 6 /\ r <= 9 -> "anunaki_revelation"
                  [] r > 9 -> "flat_earth_ai"
    /\ resp.op \in {"tsunami/next-round", "ufo/next-ufo-round"} /\ resp.status = 200
          => resp.phase =
               IF resp.op = "tsunami/next-round"
               THEN tsunami_sessions[resp.session_id].phase
               ELSE ufo_conspiracy_sessions[resp.session_id].phase

\* A tsunami session and a UFO session, both advanced to round 4 or later,
\* the tsunami session with evidence collected.
C14_Witness ==
    /\ \E s \in DOMAIN tsunami_sessions :
          /\ tsunami_sessions[s].round_number >= 5
          /\ Len(tsunami_sessions[s].conspiracy_evidence) > 0
    /\ \E s \in DOMAIN ufo_conspiracy_sessions :
          /\ ufo_conspiracy_sessions[s].round_number >= 4
          /\ ufo_conspiracy_sessions[s].phase = "conspiracy_theory"

\* The place of a phase in its mode's order.
PhaseRank(phase) ==
    CASE phase \in {"forgetting", "ufo_sighting"} -> 1
      [] phase \in {"intrigue", "conspiracy_theory"} -> 2
      [] phase \in {"tsunami", "anunaki_revelation"} -> 3
      [] phase \in {"chaos", "flat_earth_ai"} -> 4

\* C15: an advance of a tsunami or UFO session never moves the phase back in
\* the mode's order: the phase after the advance is the phase before it or a
\* later one.
C15_PhaseForward ==
    [][ /\ \A s \in DOMAIN tsunami_sessions' :
              TsunamiAdvanced(s) =>
                PhaseRank(tsunami_sessions'[s].phase)
                  >= PhaseRank(tsunami_sessions[s].phase)
        /\ \A s \in DOMAIN ufo_conspiracy_sessions' :
              UfoAdvanced(s) =>
                PhaseRank(ufo_conspiracy_sessions'[s].phase)
                  >= PhaseRank(ufo_conspiracy_sessions[s].phase)
      ]_vars

\* A UFO session advanced into its last phase.
C15_Witness ==
    \E s \in DOMAIN ufo_conspiracy_sessions :
        /\ ufo_conspiracy_sessions[s].round_number >= 10
        /\ ufo_conspiracy_sessions[s].phase = "flat_earth_ai"
        /\ resp.op = "ufo/next-ufo-round"

\* C13: in gladiator mode the stored absurdity level (in tenths) never
\* exceeds the ceiling 1.0 in any state a step leads to, whatever
\* absurdity_start_level the start request carried, and no step lowers the
\* level stored for a battle.
C13_AbsurdityWithinCeiling ==
    [][ \A k \in DOMAIN dialog_sessions' :
          k[1] = "gladiator" =>
            /\ dialog_sessions'[k].messages.data.absurdity_level <= 10
            /\ k \in DOMAIN dialog_sessions =>
                 dialog_sessions'[k].messages.data.absurdity_level
                   >= dialog_sessions[k].messages.data.absurdity_level
      ]_vars

\* C16: a request that names a session that does not exist is answered with
\* the NotFound 404 status and creates or changes no session. Stated for
\* gladiator next-round and vote: a step that answers one of them for a
\* battle_id without a row answers 404 and leaves the table as it was.
C16_MissingSessionNotFound ==
    [][ ( /\ Changed
          /\ resp'.op \in {"gladiator/next-round", "gladiator/vote"}
          /\ GladiatorKey(resp'.session_id) \notin DOMAIN dialog_sessions )
        => /\ resp'.status = 404
           /\ dialog_sessions' = dialog_sessions
      ]_vars

C19_UnsupportedFormatIs400 ==
    [][ ( /\ Changed
          /\ resp'.op = "history/export"
          /\ resp'.requested \notin {"json", "txt", "csv"} )
        => resp'.status = 400
      ]_vars

C21_AtMostOnePost ==
    gen.op \in {"chat", "generate_creative_content"} =>
        /\ gen.posts <= 1
        /\ gen.backend \in {"status_500", "timeout"} =>
              gen.text = IF gen.op = "chat" THEN FallbackResponse(gen.agent_type)
                         ELSE Apology
        /\ (gen.service.session = None \/ gen.service.available_models = <<>>)
              => gen.posts = 0

\* A call on an entered service with a model whose one request failed.
C21_Witness ==
    /\ gen.op = "generate_creative_content"
    /\ gen.service.session # None
    /\ gen.service.available_models # <<>>
    /\ gen.backend = "timeout"
    /\ gen.posts = 1
    /\ gen.text = Apology

C23_NightTerminates ==
    \A night_id \in Clock :
        (KaraokeKey(night_id) \in DOMAIN dialog_sessions)
          ~> ( /\ KaraokeKey(night_id) \in DOMAIN dialog_sessions
               /\ ~dialog_sessions[KaraokeKey(night_id)].is_active )

\* The night a finish answer is about, as the finish read it.
FinishedNight == dialog_sessions[KaraokeKey(resp.session_id)].messages.data

IsFinishAnswer ==
    /\ resp.op = "karaoke/next-performance"
    /\ "final_rankings" \in DOMAIN resp

C25_EveryVoteCounted ==
    [][ ( /\ Changed
          /\ resp'.op = "karaoke/audience-vote"
          /\ KaraokeKey(resp'.session_id) \in DOMAIN dialog_sessions )
        => /\ resp'.status = 200
           /\ LET before == dialog_sessions[KaraokeKey(resp'.session_id)]
                               .messages.data.audience_votes
                  after == dialog_sessions'[KaraokeKey(resp'.session_id)]
                               .messages.data.audience_votes
                  performer == resp'.performer
              IN  Len(after[performer])
                    = (IF performer \in DOMAIN before
                       THEN Len(before[performer]) ELSE 0) + 1
      ]_vars

\* old is new, or new is old with one entry added at the end.
GrewByAppend(old, new) ==
    \/ new = old
    \/ /\ Len(new) = Len(old) + 1
       /\ \A i \in DOMAIN old : new[i] = old[i]

C27_ParticipantsFixed ==
    [][ /\ \A s \in DOMAIN tsunami_sessions' :
              /\ DOMAIN tsunami_sessions'[s].agent_beliefs
                   = {"Adam", "Beata", "Watpiacy"}
              /\ s \in DOMAIN tsunami_sessions =>
                   tsunami_sessions'[s].confused_agent
                     = tsunami_sessions[s].confused_agent
        /\ \A s \in DOMAIN ufo_conspiracy_sessions' :
              /\ DOMAIN ufo_conspiracy_sessions'[s].agent_beliefs
                   = {"Adam", "Beata", "Watpiacy", "Daria"}
              /\ s \in DOMAIN ufo_conspiracy_sessions =>
                   ufo_conspiracy_sessions'[s].primary_agent
                     = ufo_conspiracy_sessions[s].primary_agent
      ]_vars

\* C28: a session is changed only by an advance or vote request on its own
\* identifier: on every step, a tsunami or UFO session whose state differs
\* after the step was the target of the advance or vote request the step
\* answered, and a step answering a status or vote request leaves both
\* stores as they were.
C28_ChangedOnlyByOwnRequests ==
    [][ /\ \A s \in DOMAIN tsunami_sessions :
              (s \notin DOMAIN tsunami_sessions'
                 \/ tsunami_sessions'[s] # tsunami_sessions[s])
              => /\ resp'.op \in {"tsunami/next-round",
                                  "tsunami/vote-best-deception"}
                 /\ resp'.session_id = s
        /\ \A s \in DOMAIN ufo_conspiracy_sessions :
              (s \notin DOMAIN ufo_conspiracy_sessions'
                 \/ ufo_conspiracy_sessions'[s] # ufo_conspiracy_sessions[s])
              => /\ resp'.op \in {"ufo/next-ufo-round",
                                  "ufo/vote-conspiracy-master"}
                 /\ resp'.session_id = s
        /\ resp'.op \in {"tsunami/tsunami-status", "tsunami/vote-best-deception",
                         "ufo/ufo-conspiracy-status", "ufo/vote-conspiracy-master"}
           => UNCHANGED <<tsunami_sessions, ufo_conspiracy_sessions>>
      ]_vars

\* C29: the state a request wrote to the messages column can be read back:
\* for every row of dialog_sessions, json.loads of the stored text succeeds
\* and yields the data that was written.
C29_StoredStateReadsBack ==
    \A key \in DOMAIN dialog_sessions :
        Loads(dialog_sessions[key].messages)
          = Returned(dialog_sessions[key].messages.data)

\* The tags the claim names, each with the level from which it is returned.
TsunamiTagLevels ==
    {<<"screen_shake", 5>>, <<"glitch_effect", 7>>, <<"color_inversion", 9>>}

UfoTagLevels ==
    {<<"ufo_flyby", 8>>, <<"alien_glow", 8>>, <<"cosmic_storm", 11>>,
     <<"flat_earth_spin", 11>>, <<"anunaki_power", 14>>,
     <<"chaos_inversion", 14>>}

TagsAt(tag_levels, chaos_level) ==
    {t[1] : t \in {u \in tag_levels : chaos_level >= u[2]}}

TagsOf(effects) == {effects[i] : i \in DOMAIN effects}

\* C30: the special-effect tags an advance returns are exactly the tags whose
\* threshold the resulting chaos_level has reached (tsunami 5 / 7 / 9, UFO
\* 8 / 11 / 14 in pairs), each once, and they include every tag the mode
\* gives at any lower level.
C30_EffectsByChaosLevel ==
    [][ /\ (resp'.op = "tsunami/next-round" /\ resp'.status = 200) =>
              /\ TagsOf(resp'.special_effects)
                   = TagsAt(TsunamiTagLevels, resp'.chaos_level)
              /\ Len(resp'.special_effects)
                   = Cardinality(TagsOf(resp'.special_effects))
              /\ \A lower \in 0..resp'.chaos_level :
                    TagsOf(TsunamiEffects(lower))
                      \subseteq TagsOf(resp'.special_effects)
        /\ (resp'.op = "ufo/next-ufo-round" /\ resp'.status = 200) =>
              /\ TagsOf(resp'.special_effects)
                   = TagsAt(UfoTagLevels, resp'.chaos_level)
              /\ Len(resp'.special_effects)
                   = Cardinality(TagsOf(resp'.special_effects))
              /\ \A lower \in 0..resp'.chaos_level :
                    TagsOf(UfoEffects(lower))
                      \subseteq TagsOf(resp'.special_effects)
      ]_vars

\* An advance answered at level 7 exactly with the first two tsunami tags,
\* next to a UFO session that has reached level 11.
C30_Witness ==
    /\ resp.op = "tsunami/next-round"
    /\ resp.status = 200
    /\ resp.chaos_level = 7
    /\ resp.special_effects = <<"screen_shake", "glitch_effect">>
    /\ \E s \in DOMAIN ufo_conspiracy_sessions :
          ufo_conspiracy_sessions[s].chaos_level = 11

\* C31: in every reachable state of a gladiator battle, with next-round and
\* vote requests in flight together, the stored battle has as many round
\* records as current_round says, the records are numbered 1..current_round
\* in order, and current_round is at most 5.
C31_RoundsMatchCounter ==
    \A key \in DOMAIN dialog_sessions :
        LET battle_data == dialog_sessions[key].messages.data
        IN  /\ Len(battle_data.rounds) = battle_data.current_round
            /\ \A i \in DOMAIN battle_data.rounds :
                  battle_data.rounds[i].round_number = i
            /\ battle_data.current_round <= 5

\* A next-round request and a vote request that were in flight together have
\* both written the row, and the stored battle is at its fifth round.
C31_Witness ==
    /\ \E r1, r2 \in DOMAIN inflight :
          /\ inflight[r1].pc = "done" /\ inflight[r2].pc = "done"
          /\ inflight[r1].status = 200 /\ inflight[r2].status = 200
          /\ "appended" \in DOMAIN inflight[r1] /\ inflight[r1].appended
          /\ "wrote" \in DOMAIN inflight[r2] /\ inflight[r2].wrote
    /\ Battle(dialog_sessions, 1).current_round = 5
    /\ Len(Battle(dialog_sessions, 1).rounds) = 5

\* C32: the conspiracy_level of every successful UFO response (start,
\* next-ufo-round, status, vote-conspiracy-master) is min(100, 7 *
\* chaos_level) of the session as the request leaves it, and lies in 1..100.
C32_ConspiracyLevelLaw ==
    [][ (/\ resp'.op \in {"ufo/start-ufo-conspiracy", "ufo/next-ufo-round",
                          "ufo/ufo-conspiracy-status",
                          "ufo/vote-conspiracy-master"}
         /\ resp'.status = 200)
        => LET chaos_level ==
                 ufo_conspiracy_sessions'[resp'.session_id].chaos_level
           IN  /\ resp'.conspiracy_level =
                    (IF 7 * chaos_level < 100 THEN 7 * chaos_level ELSE 100)
               /\ resp'.conspiracy_level \in 1..100
      ]_vars

\* The night stored under night_id, as the messages column holds it.
Night(db, night_id) == db[KaraokeKey(night_id)].messages.data

\* C33: a next-performance request that stores and gives performance number
\* k on a night with n participants names participants[(k-1) mod n] as the
\* performer (positions counted from 0), k is one more than the number of
\* performances before, and the record it appends is that performer's; the
\* choice depends on nothing but k and the participant list.
C33_RoundRobinPerformer ==
    [][ (/\ resp'.op = "karaoke/next-performance"
         /\ resp'.status = 200
         /\ "performance_number" \in DOMAIN resp'
         /\ dialog_sessions' # dialog_sessions)
        => LET before == Night(dialog_sessions, resp'.session_id)
               after == Night(dialog_sessions', resp'.session_id)
               k == resp'.performance_number
               n == Len(before.participants)
           IN  /\ n >= 1
               /\ k = before.current_performance + 1
               /\ resp'.performer = before.participants[((k - 1) % n) + 1]
               /\ Len(after.performances) = Len(before.performances) + 1
               /\ after.performances[Len(after.performances)].performer
                    = resp'.performer
               /\ after.participants = before.participants
      ]_vars

\* The third performance of a night with two participants is given by the
\* first participant again.
C33_Witness ==
    /\ resp.op = "karaoke/next-performance"
    /\ resp.status = 200
    /\ "performance_number" \in DOMAIN resp
    /\ resp.performance_number = 3
    /\ Len(Night(dialog_sessions, resp.session_id).participants) = 2
    /\ resp.performer = "Adam"

\* C35: a tsunami advance leaves current_topic as it was unless the new
\* round_number is divisible by 3, and every advance leaves confused_agent
\* and the identifiers of the stored sessions as they were.
C35_TopicAndAgentFrame ==
    [][ \A s \in DOMAIN tsunami_sessions :
          TsunamiAdvanced(s) =>
            /\ tsunami_sessions'[s].round_number % 3 # 0
               => tsunami_sessions'[s].current_topic
                    = tsunami_sessions[s].current_topic
            /\ tsunami_sessions'[s].confused_agent
                 = tsunami_sessions[s].confused_agent
            /\ DOMAIN tsunami_sessions' = DOMAIN tsunami_sessions
            /\ resp'.session_id = s
      ]_vars

\* An advance to round 5, which draws no topic, has answered for a session
\* that is on the second topic of the pool.
C35_Witness ==
    /\ resp.op = "tsunami/next-round"
    /\ resp.status = 200
    /\ resp.round_number = 5
    /\ tsunami_sessions[resp.session_id].current_topic = 2

\* C34 (as claimed): generate_dialog(topic, max_turns) returns exactly
\* max_turns messages, numbered 1..max_turns in order, with Adam on the odd
\* turns and Beata on the even ones, whatever the generation backend did on
\* each turn.
C34_DialogShape ==
    (gen.op = "generate_dialog" /\ gen.returned)
    => /\ Len(gen.dialog) = gen.max_turns
       /\ \A i \in DOMAIN gen.dialog :
             /\ gen.dialog[i].turn = i
             /\ gen.dialog[i].agent = IF i % 2 = 1 THEN "Adam" ELSE "Beata"

\* C34 (amended): generate_dialog(topic, max_turns) returns max_turns
\* messages when max_turns is at least 0 and no message when it is negative;
\* the messages are numbered from 1 in order, with Adam on the odd turns and
\* Beata on the even ones, whatever the generation backend did on each turn.
C34_DialogShapeFromZero ==
    (gen.op = "generate_dialog" /\ gen.returned)
    => /\ Len(gen.dialog) = IF gen.max_turns >= 0 THEN gen.max_turns ELSE 0
       /\ \A i \in DOMAIN gen.dialog :
             /\ gen.dialog[i].turn = i
             /\ gen.dialog[i].agent = IF i % 2 = 1 THEN "Adam" ELSE "Beata"

\* A returned dialog of three turns in which the first text was generated
\* and the second is the service's apology.
C34_Witness ==
    /\ gen.op = "generate_dialog"
    /\ gen.returned
    /\ gen.max_turns = 3
    /\ gen.dialog[1].text[1] = "generated"
    /\ gen.dialog[2].text[1] = Apology

\* The client ids in the list of a session item.
Members(item) == {item.clients[k] : k \in DOMAIN item.clients}

\* C36: when disconnect(client_id) has run, it did not raise, client_id is
\* not an active connection and is in no session's participant list, and no
\* session with an empty participant list remains.
C36_DisconnectCleansUp ==
    resp.op = "ws/disconnect"
    => /\ resp.raised = None
       /\ resp.client_id \notin manager.active_connections
       /\ \A i \in DOMAIN manager.dialog_sessions :
             /\ resp.client_id \notin Members(manager.dialog_sessions[i])
             /\ manager.dialog_sessions[i].clients # <<>>

\* C37: in every state reached by join_dialog_session and
\* leave_dialog_session calls a client_id appears at most once in a
\* session's participant list, and a session message is delivered to a
\* member at most once.
C37_MemberAtMostOnce ==
    /\ \A i \in DOMAIN manager.dialog_sessions :
          Cardinality(Members(manager.dialog_sessions[i]))
            = Len(manager.dialog_sessions[i].clients)
    /\ "delivered" \in DOMAIN resp
       => Cardinality({resp.delivered[k] : k \in DOMAIN resp.delivered})
            = Len(resp.delivered)

\* C38: a generate_speech request that is answered from the audio cache has
\* the same text, voice configuration, speed, pitch and emotion as the
\* request the cached audio was made for, and after clear_cache the cache
\* is empty.
C38_CacheHitSameRequest ==
    /\ (resp.op = "tts/generate_speech" /\ ~IsRaised(resp.out)
        /\ resp.out.value.from_cache)
       => resp.out.value.cached_for = resp.request
    /\ resp.op = "tts/clear_cache" => tts.audio_cache = <<>>

=============================================================================
